---- MODULE Spec2Model ----
(***************************************************************************)
(* A model of the SGP4/SDP4 propagator of njueyupeng/satellite: the SatRec *)
(* record, sgp4init, sgp4, dspace and dpper.                               *)
(*                                                                         *)
(* Numbers.  Every f64 of the source is a fixed-point integer here: the    *)
(* integer n stands for the real n / ONE.  Times (minutes since epoch) are *)
(* whole minutes.  Products and quotients of two reals are Mul and Div,    *)
(* which truncate toward zero; sin, cos, sqrt, powf and atan2 are integer  *)
(* approximants of the real functions.  A threshold below the resolution   *)
(* (1.0e-6, 1.0e-12, 1.5e-12) is the smallest positive fixed-point number  *)
(* where it is compared with a strict ">" or "<" and 0 where it is stored. *)
(***************************************************************************)
EXTENDS Integers, Sequences, FiniteSets, TLC

\* ------------------------------------------------------------------------
\* Fixed-point arithmetic
\* ------------------------------------------------------------------------

\* The fixed-point scale: 1.0 is ONE.
ONE == 1000

\* The largest magnitude a fixed-point number holds: above it a product
\* saturates, as an f64 overflows to an infinity.
FMAX == 2000 * 1000 * 1000

\* The integrator's accumulators xli and xni are kept in [-WRAP, WRAP).
WRAP == 16384

Abs(x) == IF x < 0 THEN -x ELSE x

Sgn(x) == IF x < 0 THEN -1 ELSE 1

\* a * b of two integers, saturating at FMAX.
SatMul(a, b) ==
  IF a = 0 \/ b = 0 THEN 0
  ELSE IF Abs(b) > FMAX \div Abs(a) THEN Sgn(a) * Sgn(b) * FMAX
  ELSE a * b

\* The product of two fixed-point numbers.
Mul(a, b) ==
  LET p == SatMul(a, b)
  IN IF p >= 0 THEN p \div ONE ELSE -((-p) \div ONE)

\* The quotient of two fixed-point numbers; x / 0.0 is an infinity of the
\* sign of x, and 0.0 / 0.0 is taken as 0.
Div(a, b) ==
  IF b = 0 THEN Sgn(a) * (IF a = 0 THEN 0 ELSE FMAX \div ONE)
  ELSE LET p == SatMul(a, ONE)
       IN Sgn(a) * Sgn(b) * (Abs(p) \div Abs(b))

\* A fixed-point number times a whole number (a time in minutes, a small
\* literal factor).
Scale(a, k) == SatMul(a, k)

\* Half of a fixed-point number (0.5 * a).
Half(a) == Sgn(a) * (Abs(a) \div 2)

\* A quarter of a fixed-point number (0.25 * a).
Quarter(a) == Sgn(a) * (Abs(a) \div 4)

\* Rust's % on f64: the remainder has the sign of the dividend.
Fmod(x, m) == IF x >= 0 THEN x % m ELSE -((-x) % m)

\* Two's-complement style reduction of an accumulator into [-WRAP, WRAP).
Wrap(x) == ((x + WRAP) % (2 * WRAP)) - WRAP

\* ------------------------------------------------------------------------
\* Constants (src/src/constants.rs), in fixed point
\* ------------------------------------------------------------------------

PI == 3142

TWO_PI == 6284

HALF_PI == 1571

\* EARTH_RADIUS in whole kilometres.
EARTH_RADIUS == 6378

XKE == 74

VKMPERSEC == 7905

J2 == 1

J3OJ2 == -2

\* ------------------------------------------------------------------------
\* Elementary functions
\* ------------------------------------------------------------------------

\* sin on [0, PI] (Bhaskara's rational approximant, rounded to nearest).
SinPos(x) ==
  LET p   == (x * (PI - x)) \div 100
      den == ((5 * PI * PI) \div 100) - (4 * p)
  IN ((16 * p * ONE) + (den \div 2)) \div den

Sin(x) ==
  LET r == x % TWO_PI
  IN IF r <= PI THEN SinPos(r) ELSE -SinPos(r - PI)

Cos(x) == Sin(x + HALF_PI)

RECURSIVE SqrtIter(_, _, _)
SqrtIter(n, lo, hi) ==
  IF hi - lo <= 1 THEN lo
  ELSE LET mid == (lo + hi) \div 2
       IN IF mid * mid <= n THEN SqrtIter(n, mid, hi)
          ELSE SqrtIter(n, lo, mid)

\* sqrt of a fixed-point number (0 for a negative argument's NaN).
Sqrt(x) == IF x <= 0 THEN 0 ELSE SqrtIter(SatMul(x, ONE), 0, 46340)

RECURSIVE CbrtIter(_, _, _)
CbrtIter(x, lo, hi) ==
  IF hi - lo <= 1 THEN lo
  ELSE LET mid == (lo + hi) \div 2
       IN IF Mul(Mul(mid, mid), mid) <= x THEN CbrtIter(x, mid, hi)
          ELSE CbrtIter(x, lo, mid)

\* x.powf(X2O3) for x >= 0: the cube root of x squared.
PowX2O3(x) == IF x <= 0 THEN 0 ELSE CbrtIter(Mul(x, x), 0, 30 * ONE)

\* x.powf(1.5).
Pow15(x) == Mul(x, Sqrt(x))

\* atan on [0, 1]: z / (1 + 0.28 z^2).
AtanUnit(z) == Div(z, ONE + ((28 * Mul(z, z)) \div 100))

\* y.atan2(x), in (-PI, PI].
Atan2(y, x) ==
  IF x = 0 /\ y = 0 THEN 0
  ELSE IF Abs(y) <= Abs(x)
       THEN LET a == AtanUnit(Div(Abs(y), Abs(x)))
            IN IF x > 0 THEN Sgn(y) * a ELSE Sgn(y) * (PI - a)
       ELSE LET a == AtanUnit(Div(Abs(x), Abs(y)))
            IN IF x >= 0 THEN Sgn(y) * (HALF_PI - a)
               ELSE Sgn(y) * (HALF_PI + a)

\* ------------------------------------------------------------------------
\* dspace (src/src/propagation/dspace.rs)
\* ------------------------------------------------------------------------

FASX2 == 131

FASX4 == 2884

FASX6 == 374

G22 == 5769

G32 == 952

G44 == 1801

G52 == 1051

G54 == 4411

RPTIM == 4

\* The integrator's step, in minutes.
STEPP == 720

STEPN == -720

STEP2 == 259200

\* The secular rates applied to the mean elements, and theta.
DsSecular(o) ==
  [theta |-> Fmod(o.gsto + Scale(RPTIM, o.tc), TWO_PI),
   em    |-> o.em + Scale(o.dedt, o.t),
   inclm |-> o.inclm + Scale(o.didt, o.t),
   argpm |-> o.argpm + Scale(o.domdt, o.t),
   nodem |-> o.nodem + Scale(o.dnodt, o.t),
   mm    |-> o.mm + Scale(o.dmdt, o.t)]

\* The epoch-restart test on the carried atime.
DsNeedsRestartNoBackward(t, atime) == atime = 0 \/ t * atime <= 0

DsNeedsRestart(t, atime) ==
  atime = 0 \/ t * atime <= 0 \/ Abs(t) < Abs(atime)

\* The integrator state dspace starts its loop from.
DsRestart(o) ==
  IF DsNeedsRestart(o.t, o.atime)
  THEN [atime |-> 0, xni |-> o.no, xli |-> o.xlamo]
  ELSE [atime |-> o.atime, xni |-> o.xni, xli |-> o.xli]

DsDelt(t) == IF t > 0 THEN STEPP ELSE STEPN

\* The dot terms at the integrator state st.
DsRates(o, st) ==
  LET xli   == st.xli
      xldot == st.xni + o.xfact
  IN IF o.irez # 2
     THEN \* near - synchronous resonance terms
          [xndt  |-> Mul(o.del1, Sin(xli - FASX2))
                     + Mul(o.del2, 2 * Sin(xli - FASX4))
                     + Mul(o.del3, Sin(3 * (xli - FASX6))),
           xldot |-> xldot,
           xnddt |-> Mul(Mul(o.del1, Cos(xli - FASX2))
                         + Mul(2 * o.del2, 2 * Cos(xli - FASX4))
                         + Mul(3 * o.del3, Cos(3 * (xli - FASX6))),
                         xldot)]
     ELSE \* near - half-day resonance terms
          LET xomi  == o.argpo + Scale(o.argpdot, st.atime)
              x2omi == xomi + xomi
              x2li  == xli + xli
          IN [xndt  |-> Mul(o.d2201, Sin((x2omi + xli) - G22))
                        + Mul(o.d2211, Sin(xli - G22))
                        + Mul(o.d3210, Sin((xomi + xli) - G32))
                        + Mul(o.d3222, Sin((-xomi + xli) - G32))
                        + Mul(o.d4410, Sin((x2omi + x2li) - G44))
                        + Mul(o.d4422, Sin(x2li - G44))
                        + Mul(o.d5220, Sin((xomi + xli) - G52))
                        + Mul(o.d5232, Sin((-xomi + xli) - G52))
                        + Mul(o.d5421, Sin((xomi + x2li) - G54))
                        + Mul(o.d5433, Sin((-xomi + x2li) - G54)),
              xldot |-> xldot,
              xnddt |-> Mul(Mul(o.d2201, Cos((x2omi + xli) - G22))
                            + Mul(o.d2211, Cos(xli - G22))
                            + Mul(o.d3210, Cos((xomi + xli) - G32))
                            + Mul(o.d3222, Cos((-xomi + xli) - G32))
                            + Mul(o.d5220, Cos((xomi + xli) - G52))
                            + Mul(o.d5232, Cos((-xomi + xli) - G52))
                            + 2 * (Mul(o.d4410, Cos((x2omi + x2li) - G44))
                                   + Mul(o.d4422, Cos(x2li - G44))
                                   + Mul(o.d5421, Cos((xomi + x2li) - G54))
                                   + Mul(o.d5433, Cos((-xomi + x2li) - G54))),
                            xldot)]

\* The loop's test: another full step is taken.
DsContinueStrict(t, atime) == Abs(t - atime) > STEPP

DsContinue(t, atime) == Abs(t - atime) >= STEPP

\* One pass of the integration loop from st with the dot terms r: either
\* one step of delt (iretn stays 381) or the remainder ft (iretn becomes 0).
DsPass(o, st, delt, r) ==
  IF DsContinue(o.t, st.atime)
  THEN [atime |-> st.atime + delt,
        xli   |-> Wrap(st.xli + Scale(r.xldot, delt) + Scale(r.xndt, STEP2)),
        xni   |-> Wrap(st.xni + Scale(r.xndt, delt) + Scale(r.xnddt, STEP2)),
        xndt  |-> r.xndt, xldot |-> r.xldot, xnddt |-> r.xnddt,
        ft    |-> 0, iretn |-> 381, steps |-> st.steps + 1]
  ELSE [atime |-> st.atime, xli |-> st.xli, xni |-> st.xni,
        xndt  |-> r.xndt, xldot |-> r.xldot, xnddt |-> r.xnddt,
        ft    |-> o.t - st.atime, iretn |-> 0, steps |-> st.steps]

DsIter(o, st, delt) == DsPass(o, st, delt, DsRates(o, st))

\* The integrator state on entry to the loop.
DsEnter(o) ==
  LET s == DsRestart(o)
  IN [atime |-> s.atime, xli |-> s.xli, xni |-> s.xni,
      xndt |-> 0, xldot |-> 0, xnddt |-> 0,
      ft |-> 0, iretn |-> 381, steps |-> 0]

RECURSIVE DsLoop(_, _, _)
DsLoop(o, st, delt) ==
  IF st.iretn # 381 THEN st ELSE DsLoop(o, DsIter(o, st, delt), delt)

\* The mean motion and mean anomaly dspace returns after the loop.
DsFinish(o, sec, st) ==
  LET ft   == st.ft
      nm1  == st.xni + Scale(st.xndt, ft)
              + Half(Scale(Scale(st.xnddt, ft), ft))
      xl   == st.xli + Scale(st.xldot, ft)
              + Half(Scale(Scale(st.xndt, ft), ft))
      dndt == nm1 - o.no
  IN [mm   |-> IF o.irez # 1
               THEN (xl - (2 * sec.nodem)) + (2 * sec.theta)
               ELSE (xl - sec.nodem - sec.argpm) + sec.theta,
      dndt |-> dndt,
      nm   |-> o.no + dndt]

\* The DspaceResult of a resonant record: the secular elements sec, the
\* integrator state st after the loop and what follows it, fin.
DsResult(sec, st, fin) ==
  [atime |-> st.atime, em |-> sec.em, argpm |-> sec.argpm,
   inclm |-> sec.inclm, xli |-> st.xli, mm |-> fin.mm,
   xni |-> st.xni, nodem |-> sec.nodem, dndt |-> fin.dndt,
   nm |-> fin.nm, steps |-> st.steps]

DsResonant(o, sec, st) == DsResult(sec, st, DsFinish(o, sec, st))

\* The DspaceResult of a record that is not resonant.
DsPlain(o, sec) ==
  [atime |-> o.atime, em |-> sec.em, argpm |-> sec.argpm,
   inclm |-> sec.inclm, xli |-> o.xli, mm |-> sec.mm,
   xni |-> o.xni, nodem |-> sec.nodem, dndt |-> 0,
   nm |-> o.nm, steps |-> 0]

\* dspace: the DspaceResult for the DspaceOption o.
Dspace(o) ==
  IF o.irez # 0
  THEN DsResonant(o, DsSecular(o), DsLoop(o, DsEnter(o), DsDelt(o.t)))
  ELSE DsPlain(o, DsSecular(o))

\* ------------------------------------------------------------------------
\* dpper (src/src/propagation/dpper.rs)
\* ------------------------------------------------------------------------

\* ZNS and ZNL, in millionths (they are below the fixed-point resolution).
ZNS == 12

ZNL == 158

ZES == 17

ZEL == 55

\* A rate given in millionths times a time in minutes, as a fixed-point angle.
MicroRate(k, t) == Sgn(t) * ((k * Abs(t)) \div ONE)

\* A value in millionths as a fixed-point number.
FromMicro(x) == Sgn(x) * (Abs(x) \div ONE)

\* zf, from the mean longitude zm and the eccentricity ze.
DpperZf(zm, ze) == zm + Mul(2 * ze, Sin(zm))

\* sin zf, f2 and f3.
DpperF(sinzf, coszf) ==
  [sinzf |-> sinzf,
   f2 |-> Half(Mul(sinzf, sinzf)) - (ONE \div 4),
   f3 |-> -Half(Mul(sinzf, coszf))]

DpperTerms(zf) == DpperF(Sin(zf), Cos(zf))

\* The five corrections pe, pinc, pl, pgh, ph from the solar terms s and
\* the lunar terms l.
DpperSum(satrec, s, l) ==
  [pe   |-> Mul(satrec.se2, s.f2) + Mul(satrec.se3, s.f3)
            + Mul(satrec.ee2, l.f2) + Mul(satrec.e3, l.f3),
   pinc |-> Mul(satrec.si2, s.f2) + Mul(satrec.si3, s.f3)
            + Mul(satrec.xi2, l.f2) + Mul(satrec.xi3, l.f3),
   pl   |-> Mul(satrec.sl2, s.f2) + Mul(satrec.sl3, s.f3)
            + Mul(satrec.sl4, s.sinzf)
            + Mul(satrec.xl2, l.f2) + Mul(satrec.xl3, l.f3)
            + Mul(satrec.xl4, l.sinzf),
   pgh  |-> Mul(satrec.sgh2, s.f2) + Mul(satrec.sgh3, s.f3)
            + Mul(satrec.sgh4, s.sinzf)
            + Mul(satrec.xgh2, l.f2) + Mul(satrec.xgh3, l.f3)
            + Mul(satrec.xgh4, l.sinzf),
   ph   |-> Mul(satrec.sh2, s.f2) + Mul(satrec.sh3, s.f3)
            + Mul(satrec.xh2, l.f2) + Mul(satrec.xh3, l.f3)]

\* The corrections at the record's time t (at the epoch when init is 'y').
DpperPeriodics(satrec, init) ==
  DpperSum(satrec,
           DpperTerms(DpperZf(IF init = "y" THEN satrec.zmos
                              ELSE satrec.zmos + MicroRate(ZNS, satrec.t),
                              ZES)),
           DpperTerms(DpperZf(IF init = "y" THEN satrec.zmol
                              ELSE satrec.zmol + MicroRate(ZNL, satrec.t),
                              ZEL)))

\* The inclination below which the Lyddane modification is applied (0.2 rad).
LYDDANE == 200

\* apply periodics directly
DpperDirect(o, d, ph) ==
  [ep |-> d.ep, inclp |-> d.inclp, nodep |-> o.nodep + ph,
   argpp |-> o.argpp + (d.pgh - Mul(d.cosip, ph)), mp |-> o.mp + d.pl]

\* The node of the Lyddane branch, kept on the branch of xnoh.
DpperNodeAsComputed(o, xnoh, nodep) == nodep

DpperNode(o, xnoh, nodep) ==
  IF Abs(xnoh - nodep) > PI
  THEN IF nodep < xnoh THEN nodep + TWO_PI ELSE nodep - TWO_PI
  ELSE nodep

DpperWrap(o, nodep) ==
  IF nodep < 0 /\ o.opsmode = "a" THEN nodep + TWO_PI ELSE nodep

\* apply periodics with lyddane modification
DpperLyddaneOf(o, d, xnoh, xls, nodep) ==
  [ep |-> d.ep, inclp |-> d.inclp, nodep |-> nodep,
   argpp |-> xls - (o.mp + d.pl) - Mul(d.cosip, nodep), mp |-> o.mp + d.pl]

DpperLyddaneAt(o, d, sinop, cosop, xnoh) ==
  DpperLyddaneOf(o, d, xnoh,
    o.mp + o.argpp + Mul(d.cosip, xnoh)
    + ((d.pl + d.pgh) - Mul(Mul(d.pinc, xnoh), d.sinip)),
    DpperNode(o, xnoh,
      DpperWrap(o, Atan2(Mul(d.sinip, sinop) + Mul(d.ph, cosop)
                         + Mul(Mul(d.pinc, d.cosip), sinop),
                         Mul(d.sinip, cosop) + Mul(-d.ph, sinop)
                         + Mul(Mul(d.pinc, d.cosip), cosop)))))

DpperLyddane(o, d) ==
  DpperLyddaneAt(o, d, Sin(o.nodep), Cos(o.nodep),
                 DpperWrap(o, Fmod(o.nodep, TWO_PI)))

\* The corrections less their epoch values, and the corrected ep and inclp.
DpperDelta(satrec, o, p) ==
  [pe |-> p.pe - satrec.peo, pinc |-> p.pinc - satrec.pinco,
   pl |-> p.pl - satrec.plo, pgh |-> p.pgh - satrec.pgho,
   ph |-> p.ph - satrec.pho,
   inclp |-> o.inclp + (p.pinc - satrec.pinco),
   ep |-> o.ep + (p.pe - satrec.peo),
   sinip |-> Sin(o.inclp + (p.pinc - satrec.pinco)),
   cosip |-> Cos(o.inclp + (p.pinc - satrec.pinco))]

DpperApply(o, d) ==
  IF d.inclp >= LYDDANE
  THEN DpperDirect(o, d, Div(d.ph, d.sinip))
  ELSE DpperLyddane(o, d)

\* A dpper that applies the corrections whatever init is.
DpperAppliesAtInit(satrec, o) ==
  DpperApply(o, DpperDelta(satrec, o, DpperPeriodics(satrec, o.init)))

\* dpper: the DpperResult for the record and the DpperOption o.
Dpper(satrec, o) ==
  IF o.init = "n"
  THEN DpperApply(o, DpperDelta(satrec, o, DpperPeriodics(satrec, o.init)))
  ELSE [ep |-> o.ep, inclp |-> o.inclp, nodep |-> o.nodep,
        argpp |-> o.argpp, mp |-> o.mp]

\* ------------------------------------------------------------------------
\* sgp4 (src/src/propagation/sgp4.rs)
\* ------------------------------------------------------------------------

\* J2, in millionths, for the short-period terms.
J2U == 1083

\* The lower tolerance of the mean eccentricity check (em < -0.001).
EM_LOW == 1

\* 1.0e-6, the floor of the mean eccentricity, as stored.
EM_FLOOR == 0

\* The clamp of a Kepler correction (0.95).
KEPLER_CLAMP == 950

\* 1.0e-12, the Kepler tolerance, as compared: the smallest positive number.
KEPLER_TOL == 1

\* The Kepler iteration's limit on ktr.
KEPLER_MAX == 10

\* 1.5e-12 (temp4): as compared, the smallest positive number.
TEMP4 == 1

\* clear sgp4 error flag
Sgp4ClearAccumulatesT(satrec, tsince) ==
  [satrec EXCEPT !.t = satrec.t + tsince, !.error = 0]

Sgp4ClearKeepsError(satrec, tsince) == [satrec EXCEPT !.t = tsince]

Sgp4Clear(satrec, tsince) == [satrec EXCEPT !.t = tsince, !.error = 0]

\* update for secular gravity and atmospheric drag
Sgp4Secular(satrec) ==
  LET t      == satrec.t
      xmdf   == satrec.mo + Scale(satrec.mdot, t)
      argpdf == satrec.argpo + Scale(satrec.argpdot, t)
      nodedf == satrec.nodeo + Scale(satrec.nodedot, t)
      t2     == t * t
      nodem  == nodedf + Scale(satrec.nodecf, t2)
      tempa0 == ONE - Scale(satrec.cc1, t)
      tempe0 == Scale(Mul(satrec.bstar, satrec.cc4), t)
      templ0 == Scale(satrec.t2cof, t2)
  IN IF satrec.isimp # 1
     THEN LET delomg   == Scale(satrec.omgcof, t)
              delmtemp == ONE + Mul(satrec.eta, Cos(xmdf))
              delm     == Mul(satrec.xmcof,
                              Mul(Mul(delmtemp, delmtemp), delmtemp)
                              - satrec.delmo)
              temp     == delomg + delm
              mm       == xmdf + temp
              t3       == Scale(t2, t)
              t4       == Scale(t3, t)
          IN [argpm |-> argpdf - temp, mm |-> mm, nodem |-> nodem,
              tempa |-> tempa0 - Scale(satrec.d2, t2) - Scale(satrec.d3, t3)
                        - Scale(satrec.d4, t4),
              tempe |-> tempe0 + Mul(Mul(satrec.bstar, satrec.cc5),
                                     Sin(mm) - satrec.sinmao),
              templ |-> templ0 + Scale(satrec.t3cof, t3)
                        + Scale(satrec.t4cof + Scale(satrec.t5cof, t), t4)]
     ELSE [argpm |-> argpdf, mm |-> xmdf, nodem |-> nodem,
           tempa |-> tempa0, tempe |-> tempe0, templ |-> templ0]

\* The DspaceOption sgp4 builds from the record and its locals.
Sgp4DspaceOption(satrec, sec) ==
  [irez |-> satrec.irez,
   d2201 |-> satrec.d2201, d2211 |-> satrec.d2211, d3210 |-> satrec.d3210,
   d3222 |-> satrec.d3222, d4410 |-> satrec.d4410, d4422 |-> satrec.d4422,
   d5220 |-> satrec.d5220, d5232 |-> satrec.d5232, d5421 |-> satrec.d5421,
   d5433 |-> satrec.d5433, dedt |-> satrec.dedt,
   del1 |-> satrec.del1, del2 |-> satrec.del2, del3 |-> satrec.del3,
   didt |-> satrec.didt, dmdt |-> satrec.dmdt, dnodt |-> satrec.dnodt,
   domdt |-> satrec.domdt, argpo |-> satrec.argpo,
   argpdot |-> satrec.argpdot, t |-> satrec.t, tc |-> satrec.t,
   gsto |-> satrec.gsto, xfact |-> satrec.xfact, xlamo |-> satrec.xlamo,
   no |-> satrec.no, atime |-> satrec.atime,
   em |-> satrec.ecco, argpm |-> sec.argpm, inclm |-> satrec.inclo,
   xli |-> satrec.xli, mm |-> sec.mm, xni |-> satrec.xni,
   nodem |-> sec.nodem, nm |-> satrec.no]

Sgp4AfterDspaceCarriesAtime(satrec, r) == [satrec EXCEPT !.atime = r.atime]

Sgp4AfterDspaceStoresElements(satrec, r) ==
  [satrec EXCEPT !.ecco = r.em, !.inclo = r.inclm, !.no = r.nm]

\* What sgp4 keeps of the DspaceResult r: the six mean elements.  The
\* record's atime, xli and xni are not assigned.
Sgp4AfterDspace(satrec, r) == satrec

\* long period periodics: the record's aycof and xlcof for the perturbed
\* inclination xincp (deep space only).
\* The divisor of xlcof (sgp4fix for divide by zero for xincp = 180 deg).
Sgp4XlcofDivisor(cosip) ==
  IF Abs(cosip + ONE) >= TEMP4 THEN ONE + cosip ELSE TEMP4

Sgp4LongPeriod(satrec, xincp) ==
  IF satrec.method = "d"
  THEN LET sinip == Sin(xincp)
           cosip == Cos(xincp)
           num   == -Quarter(Mul(Mul(J3OJ2, sinip), (3 * ONE) + (5 * cosip)))
       IN [satrec EXCEPT
             !.aycof = -Half(Mul(J3OJ2, sinip)),
             !.xlcof = Div(num, Sgp4XlcofDivisor(cosip))]
  ELSE satrec

\* update for short period periodics: the record's con41, x1mth2, x7thm1
\* (deep space only).
Sgp4ShortPeriod(satrec, cosip) ==
  IF satrec.method = "d"
  THEN LET cosisq == Mul(cosip, cosip)
       IN [satrec EXCEPT !.con41 = (3 * cosisq) - ONE,
                         !.x1mth2 = ONE - cosisq,
                         !.x7thm1 = (7 * cosisq) - ONE]
  ELSE satrec

\* One pass of the Kepler iteration's body, with sin and cos of eo1.
KeplerCorrection(k, u, axnl, aynl, sineo1, coseo1) ==
  Div(((u - Mul(aynl, coseo1)) + Mul(axnl, sineo1)) - k.eo1,
      ONE - Mul(coseo1, axnl) - Mul(sineo1, aynl))

KeplerClamp(raw) ==
  IF Abs(raw) >= KEPLER_CLAMP
  THEN IF raw > 0 THEN KEPLER_CLAMP ELSE -KEPLER_CLAMP
  ELSE raw

KeplerNext(k, tem5, sineo1, coseo1) ==
  [eo1 |-> k.eo1 + tem5, tem5 |-> tem5, ktr |-> k.ktr + 1,
   sineo1 |-> sineo1, coseo1 |-> coseo1]

KeplerAt(k, u, axnl, aynl, sineo1, coseo1) ==
  KeplerNext(k, KeplerClamp(KeplerCorrection(k, u, axnl, aynl, sineo1, coseo1)),
             sineo1, coseo1)

KeplerStep(k, u, axnl, aynl) ==
  KeplerAt(k, u, axnl, aynl, Sin(k.eo1), Cos(k.eo1))

KeplerGoesOnEleven(k) ==
  Abs(k.tem5) >= KEPLER_TOL /\ k.ktr <= KEPLER_MAX + 1

KeplerGoesOn(k) == Abs(k.tem5) >= KEPLER_TOL /\ k.ktr <= KEPLER_MAX

RECURSIVE KeplerLoop(_, _, _, _)
KeplerLoop(k, u, axnl, aynl) ==
  IF KeplerGoesOn(k) THEN KeplerLoop(KeplerStep(k, u, axnl, aynl), u, axnl, aynl)
  ELSE k

\* The locals at the loop's entry: eo1 = u, tem5 = 9999.9, ktr = 1.
KeplerStart(u) ==
  [eo1 |-> u, tem5 |-> 9999900, ktr |-> 1, sineo1 |-> 0, coseo1 |-> 0]

\* solve kepler's equation
Kepler(u, axnl, aynl) == KeplerLoop(KeplerStart(u), u, axnl, aynl)

\* The Sgp4Error variants and the Ok result.
Sgp4Err(variant) == [ok |-> FALSE, err |-> variant, r |-> <<>>, v |-> <<>>]

Sgp4Ok(r, v) == [ok |-> TRUE, err |-> "none", r |-> r, v |-> v]

\* The decay error's variant.
DecayVariantFF == "FF"

DecayVariant == "FpFv"

\* The decay test on the radius mrt.
IsDecayed(mrt) == mrt < ONE

\* The integrator state a DspaceResult holds.
Sgp4Trace(dsr) ==
  [atime |-> dsr.atime, xli |-> dsr.xli, xni |-> dsr.xni, steps |-> dsr.steps]

\* What dspace returns to sgp4; a near-earth record's elements as they are.
Sgp4Dspace(satrec, sec) ==
  IF satrec.method = "d"
  THEN Dspace(Sgp4DspaceOption(satrec, sec))
  ELSE [atime |-> satrec.atime, em |-> satrec.ecco, argpm |-> sec.argpm,
        inclm |-> satrec.inclo, xli |-> satrec.xli, mm |-> sec.mm,
        xni |-> satrec.xni, nodem |-> sec.nodem, dndt |-> 0,
        nm |-> satrec.no, steps |-> 0]

\* The check on the mean eccentricity (error 1).
Sgp4EmFailsHighOnly(em) == em >= ONE

Sgp4EmFails(em) == em >= ONE \/ em < -EM_LOW

\* The check on the perturbed eccentricity (error 3).
Sgp4EpFailsClosed(ep) == ep <= 0 \/ ep >= ONE

Sgp4EpFails(ep) == ep < 0 \/ ep > ONE

\* The state of a call of sgp4 after the mean elements: s is the record,
\* fail the error raised so far (0: none), checks the number of failure
\* checks passed, ds the integrator state dspace returned, and the locals.
Sgp4MeanOf(s, sec, dsr, am) ==
  [s |-> s, deep |-> s.method = "d", ds |-> Sgp4Trace(dsr),
   fail |-> IF dsr.nm <= 0 THEN 2
            ELSE IF Sgp4EmFails(dsr.em - sec.tempe) THEN 1 ELSE 0,
   checks |-> IF dsr.nm <= 0 THEN 0
              ELSE IF Sgp4EmFails(dsr.em - sec.tempe) THEN 1 ELSE 2,
   nm0 |-> dsr.nm, am |-> am, nm |-> Div(XKE, Pow15(am)),
   em1 |-> IF dsr.nm <= 0 THEN 0 ELSE dsr.em - sec.tempe,
   em |-> IF dsr.em - sec.tempe <= EM_FLOOR THEN EM_FLOOR
          ELSE dsr.em - sec.tempe,
   nodem |-> Fmod(dsr.nodem, TWO_PI),
   argpm |-> Fmod(dsr.argpm, TWO_PI),
   xlm |-> Fmod(dsr.mm + Mul(s.no, sec.templ) + dsr.argpm + dsr.nodem,
                TWO_PI),
   inclm |-> dsr.inclm,
   ep |-> 0, xincp |-> 0, nodep |-> 0, argpp |-> 0, mp |-> 0,
   sinip |-> 0, cosip |-> 0, axnl |-> 0, aynl |-> 0, u |-> 0,
   sineo1 |-> 0, coseo1 |-> 0, pl |-> 0, mrt |-> 0,
   out |-> Sgp4Err("FF")]

Sgp4MeanWith(s1, sec, dsr) ==
  Sgp4MeanOf(IF s1.method = "d" THEN Sgp4AfterDspace(s1, dsr) ELSE s1,
             sec, dsr,
             Mul(Mul(PowX2O3(Div(XKE, dsr.nm)), sec.tempa), sec.tempa))

Sgp4MeanAt(s1, sec) == Sgp4MeanWith(s1, sec, Sgp4Dspace(s1, sec))

\* The secular update, dspace, and the checks on nm (error 2) and em
\* (error 1).
Sgp4Mean(s1) == Sgp4MeanAt(s1, Sgp4Secular(s1))

\* The lunar-solar periodics dp taken in, and the check on ep (error 3).
Sgp4PeriodicsOf(c, flip, dp) ==
  [ep |-> dp.ep,
   xincp |-> IF flip THEN -dp.inclp ELSE dp.inclp,
   nodep |-> IF flip THEN dp.nodep + PI ELSE dp.nodep,
   argpp |-> IF flip THEN dp.argpp - PI ELSE dp.argpp,
   mp |-> dp.mp,
   fail |-> IF c.deep /\ Sgp4EpFails(dp.ep) THEN 3 ELSE 0,
   checks |-> IF c.deep /\ Sgp4EpFails(dp.ep) THEN 2 ELSE 3] @@ c

Sgp4PeriodicsWith(c, dp) == Sgp4PeriodicsOf(c, c.deep /\ dp.inclp < 0, dp)

Sgp4Periodics(c) ==
  IF c.fail # 0 THEN c
  ELSE Sgp4PeriodicsWith(c,
         IF c.deep
         THEN Dpper(c.s, [init |-> "n", ep |-> c.em, inclp |-> c.inclm,
                          nodep |-> c.nodem, argpp |-> c.argpm,
                          mp |-> Fmod(c.xlm - c.argpm - c.nodem, TWO_PI),
                          opsmode |-> c.s.operationmode])
         ELSE [ep |-> c.em, inclp |-> c.inclm, nodep |-> c.nodem,
               argpp |-> c.argpm,
               mp |-> Fmod(c.xlm - c.argpm - c.nodem, TWO_PI)])

\* long period periodics, with the record s3 they are read from.
Sgp4LongOf(c, s3, axnl, temp) ==
  [s |-> s3,
   sinip |-> IF c.deep THEN Sin(c.xincp) ELSE Sin(c.inclm),
   cosip |-> IF c.deep THEN Cos(c.xincp) ELSE Cos(c.inclm),
   axnl |-> axnl,
   aynl |-> Mul(c.ep, Sin(c.argpp)) + Mul(temp, s3.aycof),
   u |-> Fmod((c.mp + c.argpp + c.nodep + Mul(Mul(temp, s3.xlcof), axnl))
              - c.nodep, TWO_PI)] @@ c

Sgp4Long(c) ==
  IF c.fail # 0 THEN c
  ELSE Sgp4LongOf(c, Sgp4LongPeriod(c.s, c.xincp), Mul(c.ep, Cos(c.argpp)),
                  Div(ONE, Mul(c.am, ONE - Mul(c.ep, c.ep))))

\* solve kepler's equation; the check on the semi-latus rectum (error 4).
Sgp4SolveUnchecked(c, k, pl) ==
  [sineo1 |-> k.sineo1, coseo1 |-> k.coseo1, pl |-> pl,
   s |-> Sgp4ShortPeriod(c.s, c.cosip), fail |-> 0, checks |-> 4] @@ c

Sgp4SolveOf(c, k, pl) ==
  [sineo1 |-> k.sineo1, coseo1 |-> k.coseo1, pl |-> pl,
   s |-> IF pl < 0 THEN c.s ELSE Sgp4ShortPeriod(c.s, c.cosip),
   fail |-> IF pl < 0 THEN 4 ELSE 0,
   checks |-> IF pl < 0 THEN 3 ELSE 4] @@ c

Sgp4Solve(c) ==
  IF c.fail # 0 THEN c
  ELSE Sgp4SolveOf(c, Kepler(c.u, c.axnl, c.aynl),
                   Mul(c.am, ONE - (Mul(c.axnl, c.axnl)
                                    + Mul(c.aynl, c.aynl))))

\* The short-period terms: rl, the direction (sinu, cosu), betal and the
\* J2 factors temp1 and temp2; the radius mrt and the decay check (error 6).
Sgp4ShortOf(c, g, su0, mrt) ==
  [mrt |-> mrt,
   fail |-> IF IsDecayed(mrt) THEN 6 ELSE 0,
   checks |-> IF IsDecayed(mrt) THEN 4 ELSE 5,
   out |-> IF IsDecayed(mrt) THEN Sgp4Err(DecayVariant) ELSE c.out,
   g |-> g, su0 |-> su0] @@ c

Sgp4ShortWith(c, g) ==
  Sgp4ShortOf(c, g, Atan2(g.sinu, g.cosu),
              (g.rl - FromMicro(Mul(g.rl,
                        Half(3 * Mul(Mul(g.temp2, g.betal), c.s.con41)))))
              + FromMicro(Half(Mul(Mul(g.temp1, c.s.x1mth2), g.cos2u))))

Sgp4ShortTerms(c, rl, esine, betal, sinu, cosu, temp1) ==
  [rl |-> rl,
   rdotl |-> Div(Mul(Sqrt(c.am), esine), rl),
   rvdotl |-> Div(Sqrt(c.pl), rl),
   betal |-> betal, sinu |-> sinu, cosu |-> cosu,
   sin2u |-> Mul(cosu + cosu, sinu),
   cos2u |-> ONE - (2 * Mul(sinu, sinu)),
   temp1 |-> temp1, temp2 |-> Mul(temp1, Div(ONE, c.pl))]

Sgp4ShortAt(c, rl, esine, betal) ==
  Sgp4ShortWith(c,
    Sgp4ShortTerms(c, rl, esine, betal,
      Mul(Div(c.am, rl),
          c.sineo1 - c.aynl - Mul(c.axnl, Div(esine, ONE + betal))),
      Mul(Div(c.am, rl),
          (c.coseo1 - c.axnl) + Mul(c.aynl, Div(esine, ONE + betal))),
      Half(Mul(J2U, Div(ONE, c.pl)))))

Sgp4Short(c) ==
  IF c.fail # 0 THEN c
  ELSE Sgp4ShortAt(c,
         Mul(c.am, ONE - (Mul(c.axnl, c.coseo1) + Mul(c.aynl, c.sineo1))),
         Mul(c.axnl, c.sineo1) - Mul(c.aynl, c.coseo1),
         Sqrt(ONE - (Mul(c.axnl, c.axnl) + Mul(c.aynl, c.aynl))))

\* orientation vectors, position and velocity (in km and km/sec).
Sgp4Vectors(mrt, mvt, rvdot, sinsu, cossu, snod, cnod, sini, cosi) ==
  Sgp4Ok(
    <<Scale(Mul(mrt, Mul(Mul(-snod, cosi), sinsu) + Mul(cnod, cossu)),
            EARTH_RADIUS),
      Scale(Mul(mrt, Mul(Mul(cnod, cosi), sinsu) + Mul(snod, cossu)),
            EARTH_RADIUS),
      Scale(Mul(mrt, Mul(sini, sinsu)), EARTH_RADIUS)>>,
    <<Mul(Mul(mvt, Mul(Mul(-snod, cosi), sinsu) + Mul(cnod, cossu))
          + Mul(rvdot, Mul(Mul(-snod, cosi), cossu) - Mul(cnod, sinsu)),
          VKMPERSEC),
      Mul(Mul(mvt, Mul(Mul(cnod, cosi), sinsu) + Mul(snod, cossu))
          + Mul(rvdot, Mul(Mul(cnod, cosi), cossu) - Mul(snod, sinsu)),
          VKMPERSEC),
      Mul(Mul(mvt, Mul(sini, sinsu)) + Mul(rvdot, Mul(sini, cossu)),
          VKMPERSEC)>>)

Sgp4OrientAt(c, g, su, xnode, xinc) ==
  Sgp4Vectors(c.mrt,
    g.rdotl - FromMicro(Div(Mul(Mul(Mul(c.nm, g.temp1), c.s.x1mth2), g.sin2u),
                            XKE)),
    g.rvdotl + FromMicro(Div(Mul(Mul(c.nm, g.temp1),
                                 Mul(c.s.x1mth2, g.cos2u)
                                 + Half(3 * c.s.con41)),
                             XKE)),
    Sin(su), Cos(su), Sin(xnode), Cos(xnode), Sin(xinc), Cos(xinc))

Sgp4OrientWith(c, g) ==
  Sgp4OrientAt(c, g,
    c.su0 - FromMicro(Quarter(Mul(Mul(g.temp2, c.s.x7thm1), g.sin2u))),
    c.nodep + FromMicro(Half(3 * Mul(Mul(g.temp2, c.cosip), g.sin2u))),
    c.xincp + FromMicro(Half(3 * Mul(Mul(Mul(g.temp2, c.cosip), c.sinip),
                                     g.cos2u))))

Sgp4Orient(c) ==
  IF c.fail # 0 THEN c ELSE [c EXCEPT !.out = Sgp4OrientWith(c, c.g)]

\* The record after the call (its error set), the Result returned, and
\* the trace of the call.
Sgp4Return(c) ==
  [satrec |-> IF c.fail # 0 THEN [c.s EXCEPT !.error = c.fail] ELSE c.s,
   out |-> c.out,
   tr |-> [checks |-> c.checks, nm |-> c.nm0, em |-> c.em1,
           emc |-> IF c.checks >= 2 THEN c.em ELSE 0, ep |-> c.ep,
           pl |-> c.pl, mrt |-> c.mrt, ds |-> c.ds]]

\* sgp4.
Sgp4(satrec0, tsince) ==
  Sgp4Return(Sgp4Orient(Sgp4Short(Sgp4Solve(Sgp4Long(Sgp4Periodics(
    Sgp4Mean(Sgp4Clear(satrec0, tsince))))))))

\* ------------------------------------------------------------------------
\* SatRec (src/src/lib.rs) and sgp4init (src/src/propagation/sgp4init.rs)
\* ------------------------------------------------------------------------

\* SatRec::new(): every number 0, method 'n', operationmode I, init N.
SatRecNew ==
  [isimp |-> 0, method |-> "n", aycof |-> 0, con41 |-> 0, cc1 |-> 0,
   cc4 |-> 0, cc5 |-> 0, d2 |-> 0, d3 |-> 0, d4 |-> 0, delmo |-> 0,
   eta |-> 0, argpdot |-> 0, omgcof |-> 0, sinmao |-> 0, t |-> 0,
   t2cof |-> 0, t3cof |-> 0, t4cof |-> 0, t5cof |-> 0, x1mth2 |-> 0,
   x7thm1 |-> 0, mdot |-> 0, nodedot |-> 0, xlcof |-> 0, xmcof |-> 0,
   nodecf |-> 0, irez |-> 0, d2201 |-> 0, d2211 |-> 0, d3210 |-> 0,
   d3222 |-> 0, d4410 |-> 0, d4422 |-> 0, d5220 |-> 0, d5232 |-> 0,
   d5421 |-> 0, d5433 |-> 0, dedt |-> 0, del1 |-> 0, del2 |-> 0,
   del3 |-> 0, didt |-> 0, dmdt |-> 0, dnodt |-> 0, domdt |-> 0,
   e3 |-> 0, ee2 |-> 0, peo |-> 0, pgho |-> 0, pho |-> 0, pinco |-> 0,
   plo |-> 0, se2 |-> 0, se3 |-> 0, sgh2 |-> 0, sgh3 |-> 0, sgh4 |-> 0,
   sh2 |-> 0, sh3 |-> 0, si2 |-> 0, si3 |-> 0, sl2 |-> 0, sl3 |-> 0,
   sl4 |-> 0, gsto |-> 0, xfact |-> 0, xgh2 |-> 0, xgh3 |-> 0,
   xh2 |-> 0, xh3 |-> 0, xi2 |-> 0, xi3 |-> 0, xl2 |-> 0, xl3 |-> 0,
   xl4 |-> 0, xlamo |-> 0, zmol |-> 0, zmos |-> 0, atime |-> 0,
   xli |-> 0, xni |-> 0, xgh4 |-> 0, bstar |-> 0, ecco |-> 0,
   argpo |-> 0, inclo |-> 0, mo |-> 0, no |-> 0, nodeo |-> 0,
   operationmode |-> "i", init |-> "n", a |-> 0, alta |-> 0, altp |-> 0,
   error |-> 0]

\* A sgp4init that leaves the resonance class of the record as it finds it.
InitIrezKept(satrec) == satrec

\* satrec.irez = 0 of the zeroing below.
InitIrez(satrec) == [satrec EXCEPT !.irez = 0]

\* set all near earth variables to zero, set all deep space variables to
\* zero (xgh3 is assigned twice and xgh4 is not assigned).
InitZeroed(satrec) ==
  [InitIrez(satrec) EXCEPT
     !.isimp = 0, !.method = "n",
     !.aycof = 0, !.con41 = 0, !.cc1 = 0, !.cc4 = 0, !.cc5 = 0, !.d2 = 0,
     !.d3 = 0, !.d4 = 0, !.delmo = 0, !.eta = 0, !.argpdot = 0,
     !.omgcof = 0, !.sinmao = 0, !.t = 0, !.t2cof = 0, !.t3cof = 0,
     !.t4cof = 0, !.t5cof = 0, !.x1mth2 = 0, !.x7thm1 = 0, !.mdot = 0,
     !.nodedot = 0, !.xlcof = 0, !.xmcof = 0, !.nodecf = 0,
     !.d2201 = 0, !.d2211 = 0, !.d3210 = 0, !.d3222 = 0, !.d4410 = 0,
     !.d4422 = 0, !.d5220 = 0, !.d5232 = 0, !.d5421 = 0, !.d5433 = 0,
     !.dedt = 0, !.del1 = 0, !.del2 = 0, !.del3 = 0, !.didt = 0,
     !.dmdt = 0, !.dnodt = 0, !.domdt = 0, !.e3 = 0, !.ee2 = 0, !.peo = 0,
     !.pgho = 0, !.pho = 0, !.pinco = 0, !.plo = 0, !.se2 = 0, !.se3 = 0,
     !.sgh2 = 0, !.sgh3 = 0, !.sgh4 = 0, !.sh2 = 0, !.sh3 = 0, !.si2 = 0,
     !.si3 = 0, !.sl2 = 0, !.sl3 = 0, !.sl4 = 0, !.gsto = 0, !.xfact = 0,
     !.xgh2 = 0, !.xgh3 = 0, !.xh2 = 0, !.xh3 = 0, !.xi2 = 0, !.xi3 = 0,
     !.xl2 = 0, !.xl3 = 0, !.xl4 = 0, !.xlamo = 0, !.zmol = 0, !.zmos = 0,
     !.atime = 0, !.xli = 0, !.xni = 0]

\* The arguments of sgp4init copied into the record, init = Y and t = 0.
InitElements(satrec, o) ==
  [satrec EXCEPT !.bstar = o.xbstar, !.ecco = o.xecco, !.argpo = o.xargpo,
                 !.inclo = o.xinclo, !.mo = o.xmo, !.no = o.xno,
                 !.nodeo = o.xnodeo, !.operationmode = o.opsmode,
                 !.init = "y", !.t = 0]

\* initl (src/src/propagation/initl.rs).  The sidereal time of the epoch is
\* an argument (gstime and the AFSPC formula are not evaluated here).

\* calculate auxillary epoch quantities
InitlAux(ecco, inclo, cosio) ==
  [eccsq |-> Mul(ecco, ecco), omeosq |-> ONE - Mul(ecco, ecco),
   rteosq |-> Sqrt(ONE - Mul(ecco, ecco)), cosio |-> cosio,
   cosio2 |-> Mul(cosio, cosio), sinio |-> Sin(inclo)]

\* un-kozai the mean motion
InitlD1(x) ==
  Div(Quarter(3 * Mul(J2, (3 * x.cosio2) - ONE)), Mul(x.rteosq, x.omeosq))

InitlAdel(ak, delp) ==
  Mul(ak, ONE - Mul(delp, delp)
          - Mul(delp, (ONE \div 3) + ((134 * Mul(delp, delp)) \div 81)))

InitlNoOf(no0, d1, adel) == Div(no0, ONE + Div(d1, Mul(adel, adel)))

InitlNoWith(no0, d1, ak) ==
  InitlNoOf(no0, d1, InitlAdel(ak, Div(d1, Mul(ak, ak))))

InitlNo(x, no0) == InitlNoWith(no0, InitlD1(x), PowX2O3(Div(XKE, no0)))

InitlCon42(cosio2) == ONE - (5 * cosio2)

InitlCon41Once(con42, cosio2) == -con42 - cosio2

InitlCon41(con42, cosio2) == -con42 - cosio2 - cosio2

InitlOf(x, ecco, no, ao, con42, gsto) ==
  [no |-> no, method |-> "n", ainv |-> Div(ONE, ao), ao |-> ao,
   con41 |-> InitlCon41(con42, x.cosio2), con42 |-> con42,
   cosio |-> x.cosio, cosio2 |-> x.cosio2, eccsq |-> x.eccsq,
   omeosq |-> x.omeosq,
   posq |-> Mul(Mul(ao, x.omeosq), Mul(ao, x.omeosq)),
   rp |-> Mul(ao, ONE - ecco), rteosq |-> x.rteosq,
   sinio |-> x.sinio, gsto |-> gsto]

InitlWith(x, ecco, no, gsto) ==
  InitlOf(x, ecco, no, PowX2O3(Div(XKE, no)), InitlCon42(x.cosio2), gsto)

InitlAt(x, ecco, no0, gsto) == InitlWith(x, ecco, InitlNo(x, no0), gsto)

Initl(ecco, inclo, no0, gsto) ==
  InitlAt(InitlAux(ecco, inclo, Cos(inclo)), ecco, no0, gsto)

\* The perigee height, in kilometres, below which the drag is simplified.
ISIMP_KM == 220

\* The period, in minutes, from which a record is deep-space.
DEEP_PERIOD == 225

\* The perigee heights, in kilometres, below which s is altered, and the
\* heights s is then taken from.
PERIGE_HIGH == 156

PERIGE_LOW == 98

S_KM == 78

S_LOW_KM == 20

\* isimp, as sgp4init sets it before the deep-space test.
InitIsimp(rp) ==
  IF rp < ((ISIMP_KM * ONE) \div EARTH_RADIUS) + ONE THEN 1 ELSE 0

\* The deep-space test on the un-Kozai'd mean motion.
IsDeepSpace(no) == Div(TWO_PI, no) >= DEEP_PERIOD * ONE

\* sfour, for the perigee height perige in kilometres.
InitSfourAt(perige) ==
  IF perige < PERIGE_HIGH
  THEN (((IF perige < PERIGE_LOW THEN S_LOW_KM ELSE perige - S_KM) * ONE)
        \div EARTH_RADIUS) + ONE
  ELSE ((S_KM * ONE) \div EARTH_RADIUS) + ONE

InitSfour(rp) == InitSfourAt(Scale(rp - ONE, EARTH_RADIUS) \div ONE)

\* tsi, eta and the powers the coefficients are built from.
InitGeomOf(satrec, il, sfour, tsi, eta) ==
  [sfour |-> sfour, tsi |-> tsi, eta |-> eta, etasq |-> Mul(eta, eta),
   eeta |-> Mul(satrec.ecco, eta), psisq |-> Abs(ONE - Mul(eta, eta)),
   pinvsq |-> Div(ONE, il.posq)]

InitGeomWith(satrec, il, sfour, tsi) ==
  InitGeomOf(satrec, il, sfour, tsi, Mul(Mul(il.ao, satrec.ecco), tsi))

InitGeom(satrec, il, sfour) ==
  InitGeomWith(satrec, il, sfour, Div(ONE, il.ao - sfour))

\* The drag coefficients.  coef and coef1 (of the order of 1e-4 and below
\* the resolution) are arguments.
InitCc2(satrec, il, g, coef1) ==
  Mul(Mul(coef1, satrec.no),
      Mul(il.ao, ONE + Half(3 * g.etasq) + Mul(g.eeta, (4 * ONE) + g.etasq))
      + Mul(Mul(Div((3 * Mul(J2, g.tsi)) \div 8, g.psisq), satrec.con41),
            (8 * ONE) + (3 * Mul(g.etasq, (8 * ONE) + g.etasq))))

InitCc3(satrec, il, g, coef) ==
  IF satrec.ecco > 0
  THEN Div(-2 * Mul(Mul(Mul(Mul(coef, g.tsi), J3OJ2), satrec.no), il.sinio),
           satrec.ecco)
  ELSE 0

InitCc4(satrec, il, g, coef1) ==
  2 * Mul(Mul(Mul(Mul(satrec.no, coef1), il.ao), il.omeosq),
      (Mul(g.eta, (2 * ONE) + Half(g.etasq))
       + Mul(satrec.ecco, Half(ONE) + (2 * g.etasq)))
      - Mul(Div(Mul(J2, g.tsi), Mul(il.ao, g.psisq)),
            (-3 * Mul(satrec.con41,
                      (ONE - (2 * g.eeta))
                      + Mul(g.etasq, Half(3 * ONE) - Half(g.eeta))))
            + Mul(Mul((3 * (ONE - il.cosio2)) \div 4,
                      (2 * g.etasq) - Mul(g.eeta, ONE + g.etasq)),
                  Cos(2 * satrec.argpo))))

InitCc5(il, g, coef1) ==
  2 * Mul(Mul(Mul(coef1, il.ao), il.omeosq),
          ONE + ((11 * (g.etasq + g.eeta)) \div 4) + Mul(g.eeta, g.etasq))

\* The secular rates; temp3 (a product with J4, -1.6e-6) is 0.
InitRatesOf(satrec, il, temp1, temp2, cosio4) ==
  [mdot |-> satrec.no + Half(Mul(Mul(temp1, il.rteosq), satrec.con41))
            + (Mul(Mul(temp2, il.rteosq),
                   ((13 * ONE) - (78 * il.cosio2)) + (137 * cosio4))
               \div 16),
   argpdot |-> -Half(Mul(temp1, il.con42))
               + (Mul(temp2, ((7 * ONE) - (114 * il.cosio2))
                             + (395 * cosio4)) \div 16),
   xhdot1 |-> -Mul(temp1, il.cosio),
   nodedot |-> -Mul(temp1, il.cosio)
               + Mul(Half(Mul(temp2, (4 * ONE) - (19 * il.cosio2))),
                     il.cosio)]

InitRatesWith(satrec, il, g, temp1) ==
  InitRatesOf(satrec, il, temp1, Half(Mul(Mul(temp1, J2), g.pinvsq)),
              Mul(il.cosio2, il.cosio2))

InitRates(satrec, il, g) ==
  InitRatesWith(satrec, il, g, Half(3 * Mul(Mul(J2, g.pinvsq), satrec.no)))

\* xlcof, with the sgp4fix for divide by zero with xinco = 180 deg.
InitXlcofDivisorUnfloored(cosio) == ONE + cosio

InitXlcofDivisor(cosio) ==
  IF Abs(cosio + ONE) >= TEMP4 THEN ONE + cosio ELSE TEMP4

InitXlcofOf(il, num) == Div(num, InitXlcofDivisor(il.cosio))

InitXlcof(il) ==
  InitXlcofOf(il, -Quarter(Mul(Mul(J3OJ2, il.sinio),
                               (3 * ONE) + (5 * il.cosio))))

\* The near-earth coefficients stored in the record; ao, tsi, sfour and
\* xpidot are kept for what follows.
InitNearEarthOf(satrec, il, g, cc1, cc3, r, coef, coef1, delmotemp) ==
  [rec |->
     [satrec EXCEPT
        !.eta = g.eta, !.cc1 = cc1, !.x1mth2 = ONE - il.cosio2,
        !.cc4 = InitCc4(satrec, il, g, coef1),
        !.cc5 = InitCc5(il, g, coef1),
        !.mdot = r.mdot, !.argpdot = r.argpdot, !.nodedot = r.nodedot,
        !.omgcof = Mul(Mul(satrec.bstar, cc3), Cos(satrec.argpo)),
        !.xmcof = IF satrec.ecco > 0
                  THEN Div(-((2 * Mul(coef, satrec.bstar)) \div 3), g.eeta)
                  ELSE 0,
        !.nodecf = Half(7 * Mul(Mul(il.omeosq, r.xhdot1), cc1)),
        !.t2cof = Half(3 * cc1),
        !.xlcof = InitXlcof(il),
        !.aycof = -Half(Mul(J3OJ2, il.sinio)),
        !.delmo = Mul(Mul(delmotemp, delmotemp), delmotemp),
        !.sinmao = Sin(satrec.mo),
        !.x7thm1 = (7 * il.cosio2) - ONE],
   ao |-> il.ao, tsi |-> g.tsi, sfour |-> g.sfour,
   xpidot |-> r.argpdot + r.nodedot]

InitNearEarthWith(satrec, il, g, coef, coef1) ==
  InitNearEarthOf(satrec, il, g,
                  Mul(satrec.bstar, InitCc2(satrec, il, g, coef1)),
                  InitCc3(satrec, il, g, coef), InitRates(satrec, il, g),
                  coef, coef1, ONE + Mul(g.eta, Cos(satrec.mo)))

InitNearEarth(satrec, il, coef, coef1) ==
  InitNearEarthWith(satrec, il, InitGeom(satrec, il, InitSfour(il.rp)),
                    coef, coef1)

\* set variables if not deep space: the higher-order drag terms.
InitDragSet(satrec, cc1sq, d2, d3, d4) ==
  [satrec EXCEPT
     !.d2 = d2, !.d3 = d3, !.d4 = d4,
     !.t3cof = d2 + (2 * cc1sq),
     !.t4cof = Quarter((3 * d3) + Mul(satrec.cc1, (12 * d2) + (10 * cc1sq))),
     !.t5cof = ((3 * d4) + (12 * Mul(satrec.cc1, d3)) + (6 * Mul(d2, d2))
                + (15 * Mul(cc1sq, (2 * d2) + cc1sq))) \div 5]

InitDragOf(satrec, ne, cc1sq, d2, temp) ==
  InitDragSet(satrec, cc1sq, d2, Mul((17 * ne.ao) + ne.sfour, temp),
              Half(Mul(Mul(Mul(Mul(temp, ne.ao), ne.tsi),
                           (221 * ne.ao) + (31 * ne.sfour)),
                       satrec.cc1)))

InitDragWith(satrec, ne, cc1sq, d2) ==
  InitDragOf(satrec, ne, cc1sq, d2, Mul(Mul(d2, ne.tsi), satrec.cc1) \div 3)

InitDragAt(satrec, ne, cc1sq) ==
  InitDragWith(satrec, ne, cc1sq, 4 * Mul(Mul(ne.ao, ne.tsi), cc1sq))

InitHigherDrag(satrec, ne) ==
  IF satrec.isimp # 1
  THEN InitDragAt(satrec, ne, Mul(satrec.cc1, satrec.cc1))
  ELSE satrec

\* ------------------------------------------------------------------------
\* dscom (not among the sources; after section 4.2 of the specification)
\* ------------------------------------------------------------------------

\* The solar mean longitude at day 0 and its rate per day, in millionths.
ZMOS0 == 6257

ZMOS_RATE == 17202

\* The series depend on the epoch elements and tc only and are written once:
\* geom holds the lunar and solar geometry of the epoch, zmos follows the
\* time-linear expansion, and the mean elements are those given.
Dscom(o, geom) ==
  [zmos  |-> Fmod(ZMOS0 + MicroRate(ZMOS_RATE, o.day), TWO_PI),
   sinim |-> Sin(o.inclp), cosim |-> Cos(o.inclp),
   em |-> o.ep, emsq |-> Mul(o.ep, o.ep), nm |-> o.np] @@ geom

\* ------------------------------------------------------------------------
\* dsinit (src/src/propagation/dsinit.rs)
\* ------------------------------------------------------------------------

\* The bounds of the two resonance bands on nm, in units of 1e-10 rad/min.
SYNC_LOW == 34906585

SYNC_HIGH == 52359877

HALF_DAY_LOW == 82600000

HALF_DAY_HIGH == 92400000

\* The least eccentricity of a half-day resonant orbit.
HALF_DAY_ECC == 500

\* The inclination below which (and above PI minus which) shs and shll vanish.
INCL_180 == 52

\* A coefficient k given in millionths times the fixed-point x.
Micro(k, x) == Sgn(x) * ((k * Abs(x)) \div (ONE * ONE))

\* The units of 1e-10 rad/min in one fixed-point unit of mean motion.
NM_UNITS == 10 * 1000 * 1000

\* A classification whose synchronous band takes its lower limit in.
DsinitIrezAtClosed(nm, em) ==
  IF (nm >= HALF_DAY_LOW) /\ (nm <= HALF_DAY_HIGH) /\ (em >= HALF_DAY_ECC)
  THEN 2
  ELSE IF (nm < SYNC_HIGH) /\ (nm >= SYNC_LOW) THEN 1 ELSE 0

\* The resonance class of the mean motion nm, in units of 1e-10 rad/min,
\* and the eccentricity em: irez = 0, then 1 in the synchronous band, then
\* 2 in the half-day band.
DsinitIrezAt(nm, em) ==
  IF (nm >= HALF_DAY_LOW) /\ (nm <= HALF_DAY_HIGH) /\ (em >= HALF_DAY_ECC)
  THEN 2
  ELSE IF (nm < SYNC_HIGH) /\ (nm > SYNC_LOW) THEN 1 ELSE 0

\* The resonance class of the fixed-point mean motion and eccentricity.
DsinitIrez(nm, em) == DsinitIrezAt(Scale(nm, NM_UNITS), em)

\* The solar and lunar secular rates.
DsinitRates(o) ==
  LET flat  == (o.inclm < INCL_180) \/ (o.inclm > PI - INCL_180)
      ses   == Micro(ZNS, Mul(o.ss1, o.ss5))
      sis   == Micro(ZNS, Mul(o.ss2, o.sz11 + o.sz13))
      sls   == -Micro(ZNS, Mul(o.ss3, (o.sz1 + o.sz3) - (14 * ONE)
                                      - (6 * o.emsq)))
      sghs  == Micro(ZNS, Mul(o.ss4, (o.sz31 + o.sz33) - (6 * ONE)))
      shs0  == IF flat THEN 0 ELSE -Micro(ZNS, Mul(o.ss2, o.sz21 + o.sz23))
      shs   == IF o.sinim # 0 THEN Div(shs0, o.sinim) ELSE shs0
      sgs   == sghs - Mul(o.cosim, shs)
      sghl  == Micro(ZNL, Mul(o.s4, (o.z31 + o.z33) - (6 * ONE)))
      shll  == IF flat THEN 0 ELSE -Micro(ZNL, Mul(o.s2, o.z21 + o.z23))
  IN [dedt  |-> ses + Micro(ZNL, Mul(o.s1, o.s5)),
      didt  |-> sis + Micro(ZNL, Mul(o.s2, o.z11 + o.z13)),
      dmdt  |-> sls - Micro(ZNL, Mul(o.s3, (o.z1 + o.z3) - (14 * ONE)
                                           - (6 * o.emsq))),
      domdt |-> IF o.sinim # 0
                THEN (sgs + sghl) - Mul(Div(o.cosim, o.sinim), shll)
                ELSE sgs + sghl,
      dnodt |-> IF o.sinim # 0 THEN shs + Div(shll, o.sinim) ELSE shs]

\* xlamo and xfact of a resonant record.
DsinitXlamo(o, irez, theta) ==
  IF irez = 2
  THEN Fmod((o.mo + o.nodeo + o.nodeo) - (theta + theta), TWO_PI)
  ELSE Fmod((o.mo + o.nodeo + o.argpo) - theta, TWO_PI)

DsinitXfact(o, irez, r) ==
  IF irez = 2
  THEN (o.mdot + r.dmdt + (2 * ((o.nodedot + r.dnodt) - RPTIM))) - o.no
  ELSE (o.mdot + o.xpidot + r.dmdt + r.domdt + r.dnodt) - (o.no + RPTIM)

\* dsinit.  The resonance coefficients (products with the geopotential
\* roots, of the order of 1e-6) are below the resolution: res holds them.
\* A record that is not resonant keeps the atime, xli, xni, xlamo, xfact and
\* coefficients it was given.
\* An integrator initialisation that leaves atime as it was passed in.
DsinitIntegratorKeepsAtime(o, irez, xlamo) ==
  [atime |-> o.atime,
   xli   |-> IF irez # 0 THEN xlamo ELSE o.xli,
   xni   |-> IF irez # 0 THEN o.no ELSE o.xni]

\* for sgp4, initialize the integrator (inside if irez != 0)
DsinitIntegrator(o, irez, xlamo) ==
  [atime |-> IF irez # 0 THEN 0 ELSE o.atime,
   xli   |-> IF irez # 0 THEN xlamo ELSE o.xli,
   xni   |-> IF irez # 0 THEN o.no ELSE o.xni]

\* A dsinit that computes the coefficients of both classes for a resonant
\* record.
DsinitCoefficientsOfBoth(o, res, irez) ==
  IF irez # 0 THEN res
  ELSE [d2201 |-> o.d2201, d2211 |-> o.d2211, d3210 |-> o.d3210,
        d3222 |-> o.d3222, d4410 |-> o.d4410, d4422 |-> o.d4422,
        d5220 |-> o.d5220, d5232 |-> o.d5232, d5421 |-> o.d5421,
        d5433 |-> o.d5433, del1 |-> o.del1, del2 |-> o.del2,
        del3 |-> o.del3]

\* The resonance coefficients: d2201..d5433 are computed if irez = 2,
\* del1..del3 if irez = 1, and the others are those of the options.
DsinitCoefficients(o, res, irez) ==
  [d2201 |-> IF irez = 2 THEN res.d2201 ELSE o.d2201,
   d2211 |-> IF irez = 2 THEN res.d2211 ELSE o.d2211,
   d3210 |-> IF irez = 2 THEN res.d3210 ELSE o.d3210,
   d3222 |-> IF irez = 2 THEN res.d3222 ELSE o.d3222,
   d4410 |-> IF irez = 2 THEN res.d4410 ELSE o.d4410,
   d4422 |-> IF irez = 2 THEN res.d4422 ELSE o.d4422,
   d5220 |-> IF irez = 2 THEN res.d5220 ELSE o.d5220,
   d5232 |-> IF irez = 2 THEN res.d5232 ELSE o.d5232,
   d5421 |-> IF irez = 2 THEN res.d5421 ELSE o.d5421,
   d5433 |-> IF irez = 2 THEN res.d5433 ELSE o.d5433,
   del1  |-> IF irez = 1 THEN res.del1 ELSE o.del1,
   del2  |-> IF irez = 1 THEN res.del2 ELSE o.del2,
   del3  |-> IF irez = 1 THEN res.del3 ELSE o.del3]

DsinitOf(o, res, irez, r, xlamo) ==
  r @@ DsinitCoefficients(o, res, irez)
    @@ [irez |-> irez, dndt |-> 0,
        atime |-> DsinitIntegrator(o, irez, xlamo).atime,
        xli   |-> DsinitIntegrator(o, irez, xlamo).xli,
        xni   |-> DsinitIntegrator(o, irez, xlamo).xni,
        xlamo |-> xlamo,
        xfact |-> IF irez # 0 THEN DsinitXfact(o, irez, r) ELSE o.xfact,
        nm    |-> IF irez # 0 THEN o.no ELSE o.nm]

DsinitWith(o, res, irez, theta) ==
  DsinitOf(o, res, irez, DsinitRates(o),
           IF irez # 0 THEN DsinitXlamo(o, irez, theta) ELSE o.xlamo)

Dsinit(o, res) ==
  DsinitWith(o, res, DsinitIrez(o.nm, o.em),
             Fmod(o.gsto + Scale(RPTIM, o.tc), TWO_PI))

\* ------------------------------------------------------------------------
\* sgp4init, continued: the deep-space initialization and the whole routine
\* ------------------------------------------------------------------------

\* The series dscom returns, stored in the record.
InitStoreDscom(satrec, dc) ==
  [satrec EXCEPT
     !.e3 = dc.e3, !.ee2 = dc.ee2, !.peo = dc.peo, !.pgho = dc.pgho,
     !.pho = dc.pho, !.pinco = dc.pinco, !.plo = dc.plo, !.se2 = dc.se2,
     !.se3 = dc.se3, !.sgh2 = dc.sgh2, !.sgh3 = dc.sgh3, !.sgh4 = dc.sgh4,
     !.sh2 = dc.sh2, !.sh3 = dc.sh3, !.si2 = dc.si2, !.si3 = dc.si3,
     !.sl2 = dc.sl2, !.sl3 = dc.sl3, !.sl4 = dc.sl4, !.xgh2 = dc.xgh2,
     !.xgh3 = dc.xgh3, !.xgh4 = dc.xgh4, !.xh2 = dc.xh2, !.xh3 = dc.xh3,
     !.xi2 = dc.xi2, !.xi3 = dc.xi3, !.xl2 = dc.xl2, !.xl3 = dc.xl3,
     !.xl4 = dc.xl4, !.zmol = dc.zmol, !.zmos = dc.zmos]

\* dpper with init = Y on the epoch elements, stored back in the record.
InitDpperStore(satrec, r) ==
  [satrec EXCEPT !.ecco = r.ep, !.inclo = r.inclp, !.nodeo = r.nodep,
                 !.argpo = r.argpp, !.mo = r.mp]

\* The DpperOption sgp4init hands to dpper: the record's init (Y) and its
\* epoch elements.
InitDpperOption(satrec) ==
  [init |-> satrec.init, ep |-> satrec.ecco, inclp |-> satrec.inclo,
   nodep |-> satrec.nodeo, argpp |-> satrec.argpo, mp |-> satrec.mo,
   opsmode |-> satrec.operationmode]

InitDpper(satrec) ==
  InitDpperStore(satrec, Dpper(satrec, InitDpperOption(satrec)))

\* The options sgp4init hands to dsinit.
InitDsinitOption(satrec, dc, il, xpidot, inclm) ==
  [s1 |-> dc.s1, s2 |-> dc.s2, s3 |-> dc.s3, s4 |-> dc.s4, s5 |-> dc.s5,
   ss1 |-> dc.ss1, ss2 |-> dc.ss2, ss3 |-> dc.ss3, ss4 |-> dc.ss4,
   ss5 |-> dc.ss5, sz1 |-> dc.sz1, sz3 |-> dc.sz3, sz11 |-> dc.sz11,
   sz13 |-> dc.sz13, sz21 |-> dc.sz21, sz23 |-> dc.sz23,
   sz31 |-> dc.sz31, sz33 |-> dc.sz33, z1 |-> dc.z1, z3 |-> dc.z3,
   z11 |-> dc.z11, z13 |-> dc.z13, z21 |-> dc.z21, z23 |-> dc.z23,
   z31 |-> dc.z31, z33 |-> dc.z33, gsto |-> satrec.gsto,
   mo |-> satrec.mo, mdot |-> satrec.mdot, no |-> satrec.no,
   nodeo |-> satrec.nodeo, nodedot |-> satrec.nodedot,
   ecco |-> satrec.ecco, argpo |-> satrec.argpo, irez |-> satrec.irez,
   atime |-> satrec.atime, d2201 |-> satrec.d2201,
   d2211 |-> satrec.d2211, d3210 |-> satrec.d3210,
   d3222 |-> satrec.d3222, d4410 |-> satrec.d4410,
   d4422 |-> satrec.d4422, d5220 |-> satrec.d5220,
   d5232 |-> satrec.d5232, d5421 |-> satrec.d5421,
   d5433 |-> satrec.d5433, dedt |-> satrec.dedt, didt |-> satrec.didt,
   dmdt |-> satrec.dmdt, dnodt |-> satrec.dnodt, domdt |-> satrec.domdt,
   del1 |-> satrec.del1, del2 |-> satrec.del2, del3 |-> satrec.del3,
   xfact |-> satrec.xfact, xlamo |-> satrec.xlamo, xli |-> satrec.xli,
   xni |-> satrec.xni, cosim |-> dc.cosim, sinim |-> dc.sinim,
   emsq |-> dc.emsq, em |-> dc.em, nm |-> dc.nm, t |-> satrec.t,
   tc |-> 0, xpidot |-> xpidot, eccsq |-> il.eccsq, argpm |-> 0,
   inclm |-> inclm, mm |-> 0, nodem |-> 0]

\* What dsinit returns, stored in the record.
InitStoreDsinit(satrec, r) ==
  [satrec EXCEPT
     !.irez = r.irez, !.atime = r.atime, !.d2201 = r.d2201,
     !.d2211 = r.d2211, !.d3210 = r.d3210, !.d3222 = r.d3222,
     !.d4410 = r.d4410, !.d4422 = r.d4422, !.d5220 = r.d5220,
     !.d5232 = r.d5232, !.d5421 = r.d5421, !.d5433 = r.d5433,
     !.dedt = r.dedt, !.didt = r.didt, !.dmdt = r.dmdt, !.dnodt = r.dnodt,
     !.domdt = r.domdt, !.del1 = r.del1, !.del2 = r.del2, !.del3 = r.del3,
     !.xfact = r.xfact, !.xlamo = r.xlamo, !.xli = r.xli, !.xni = r.xni]

\* deep space initialization: method 'd', isimp 1, dscom, dpper, dsinit.
InitDsinit(s3, dc, il, xpidot, inclm, c) ==
  InitStoreDsinit(s3, Dsinit(InitDsinitOption(s3, dc, il, xpidot, inclm),
                             c.res))

InitDeepWith(s1, dc, il, xpidot, c) ==
  InitDsinit(InitDpper(InitStoreDscom(s1, dc)), dc, il, xpidot, s1.inclo, c)

InitDeepAt(s1, il, xpidot, c) ==
  InitDeepWith(s1,
               Dscom([day |-> c.day, ep |-> s1.ecco, argpp |-> s1.argpo,
                      tc |-> 0, inclp |-> s1.inclo, nodep |-> s1.nodeo,
                      np |-> s1.no], c.geom),
               il, xpidot, c)

\* A deep-space branch that leaves the method as the zeroing set it.
InitMethodKeepsIsimp(satrec) == [satrec EXCEPT !.method = "d"]

InitMethodKept(satrec) == [satrec EXCEPT !.isimp = 1]

\* satrec.method = 'd'; satrec.isimp = 1
InitMethod(satrec) == [satrec EXCEPT !.method = "d", !.isimp = 1]

InitDeepSpace(satrec, il, xpidot, c) ==
  InitDeepAt(InitMethod(satrec), il, xpidot, c)

\* What initl found, stored in the record; a, alta, altp; error = 0.
InitAfterInitl(s1, il, a) ==
  [s1 EXCEPT !.no = il.no, !.con41 = il.con41, !.gsto = il.gsto,
             !.a = a, !.alta = Mul(a, ONE + s1.ecco) - ONE,
             !.altp = Mul(a, ONE - s1.ecco) - ONE, !.error = 0]

\* The deep-space initialization if the period calls for it, and the
\* higher-order drag terms if isimp is not 1.
InitFinish(ne, il, c) ==
  InitHigherDrag(IF IsDeepSpace(ne.rec.no)
                 THEN InitDeepSpace(ne.rec, il, ne.xpidot, c)
                 ELSE ne.rec,
                 ne)

InitCoefficients(s2, il, c) ==
  IF (il.omeosq >= 0) \/ (s2.no >= 0)
  THEN InitFinish(InitNearEarth([s2 EXCEPT !.isimp = InitIsimp(il.rp)],
                                il, c.coef, c.coef1),
                  il, c)
  ELSE s2

Sgp4InitWith(s1, il, c) ==
  [rec |-> InitCoefficients(InitAfterInitl(s1, il, PowX2O3(Div(XKE, il.no))),
                            il, c),
   rp |-> il.rp]

Sgp4InitAt(s1, c) ==
  Sgp4InitWith(s1, Initl(s1.ecco, s1.inclo, s1.no, c.gsto), c)

\* The record before the closing call of sgp4, and the rp initl found.
Sgp4InitBody(satrec0, c) ==
  Sgp4InitAt(InitElements(InitZeroed(satrec0), c), c)

\* A sgp4init that ends without the call of sgp4.
Sgp4InitEndNoCall(b) == [rec |-> [b.rec EXCEPT !.init = "n"], rp |-> b.rp]

\* A sgp4init that sets error 5 for a perigee below the surface.
Sgp4InitEndReportsSubOrbital(b) ==
  [rec |-> [(IF b.rp < ONE
             THEN [b.rec EXCEPT !.error = 5]
             ELSE Sgp4(b.rec, 0).satrec) EXCEPT !.init = "n"],
   rp |-> b.rp]

\* sgp4 at the epoch (its outcome dropped), then init = N.
Sgp4InitEnd(b) ==
  [rec |-> [Sgp4(b.rec, 0).satrec EXCEPT !.init = "n"], rp |-> b.rp]

\* sgp4init.
Sgp4Init(satrec0, c) == Sgp4InitEnd(Sgp4InitBody(satrec0, c))

\* ------------------------------------------------------------------------
\* The callers: a record is initialised by sgp4init and then propagated by
\* sgp4 at any times, in any order; atime is a public field of the record.
\* ------------------------------------------------------------------------

\* The times of the calls are the multiples of TimeGrid minutes up to MaxK.
TimeGrid == 360

MaxK == 4

Times == {k * TimeGrid : k \in -MaxK..MaxK}

\* The lunar and solar geometry of an epoch with series coefficients g.
Geom(g) ==
  [e3 |-> 0, ee2 |-> g, peo |-> 0, pgho |-> 0, pho |-> 0, pinco |-> 0,
   plo |-> 0, se2 |-> g, se3 |-> 0, sgh2 |-> g, sgh3 |-> 0, sgh4 |-> 0,
   sh2 |-> g, sh3 |-> 0, si2 |-> g, si3 |-> 0, sl2 |-> g, sl3 |-> 0,
   sl4 |-> 0, xgh2 |-> g, xgh3 |-> 0, xgh4 |-> 0, xh2 |-> g, xh3 |-> 0,
   xi2 |-> g, xi3 |-> 0, xl2 |-> g, xl3 |-> 0, xl4 |-> 0, zmol |-> ONE,
   s1 |-> 0, s2 |-> 0, s3 |-> 0, s4 |-> 0, s5 |-> 0, ss1 |-> 0,
   ss2 |-> 0, ss3 |-> 0, ss4 |-> 0, ss5 |-> 0, sz1 |-> 0, sz3 |-> 0,
   sz11 |-> 0, sz13 |-> 0, sz21 |-> 0, sz23 |-> 0, sz31 |-> 0,
   sz33 |-> 0, z1 |-> 0, z3 |-> 0, z11 |-> 0, z13 |-> 0, z21 |-> 0,
   z23 |-> 0, z31 |-> 0, z33 |-> 0]

\* The resonance coefficients, all d.
Res(d) ==
  [d2201 |-> d, d2211 |-> d, d3210 |-> d, d3222 |-> d, d4410 |-> d,
   d4422 |-> d, d5220 |-> d, d5232 |-> d, d5421 |-> d, d5433 |-> d,
   del1 |-> d, del2 |-> d, del3 |-> d]

\* The arguments of sgp4init for an element set.
Elements(no, ecco, inclo, bstar, coef1, g, d) ==
  [xbstar |-> bstar, xecco |-> ecco, xargpo |-> ONE, xinclo |-> inclo,
   xmo |-> 2 * ONE, xno |-> no, xnodeo |-> 3 * ONE, opsmode |-> "i",
   gsto |-> ONE, day |-> 20000, coef |-> 1, coef1 |-> coef1,
   geom |-> Geom(g), res |-> Res(d)]

\* The element sets: low orbits with and without drag, sub-orbital ones,
\* and deep-space ones that are synchronous, half-day resonant or neither.
Cases ==
  {Elements(62, 1, 1100, 0, 1, 0, 0),
   Elements(62, 100, 1100, 500, 1000, 0, 0),
   Elements(62, 600, 100, 0, 1, 0, 0),
   Elements(62, 1, 1100, 500, 100, 0, 0),
   Elements(62, 990, 1100, 0, 1, 0, 0),
   Elements(40, 990, 1571, 0, 1, 0, 0),
   Elements(4, 1, 100, 0, 1, 50, 0),
   Elements(4, 100, 1100, 0, 1, 50, 1),
   Elements(9, 600, 1100, 0, 1, 50, 1),
   Elements(9, 600, 3000, 0, 1, 50, 0),
   Elements(15, 100, 3000, 0, 1, 50, 0),
   Elements(15, 600, 1100, 0, 1, 700, 0),
   Elements(15, 990, 100, 0, 1, 50, 0)}

VARIABLES satrec, rec0, rp, call, decayed, afterReset,
          dsO, dsSt, dsStart, dsPc, fn, args, result, procs

vars == <<satrec, rec0, rp, call, decayed, afterReset,
          dsO, dsSt, dsStart, dsPc, fn, args, result, procs>>

callerVars == <<satrec, rec0, rp, call, decayed, afterReset>>

dspaceVars == <<dsO, dsSt, dsStart, dsPc>>

\* A function taken alone: its name once applied, its arguments and what
\* it returned.
pureVars == <<fn, args, result>>

\* Two calls of sgp4 on one record at once: for each its position, its
\* tsince and its locals.
raceVars == <<procs>>

\* No result yet.
NoOut == [ok |-> FALSE, err |-> "none", r |-> <<>>, v |-> <<>>]

NoTrace ==
  [checks |-> 0, nm |-> 0, em |-> 0, emc |-> 0, ep |-> 0, pl |-> 0,
   mrt |-> 0,
   ds |-> [atime |-> 0, xli |-> 0, xni |-> 0, steps |-> 0]]

\* A DspaceOption of a resonant record, for dspace taken alone.
DsOption(irez, t, atime, xli, xni, d) ==
  [irez |-> irez, t |-> t, tc |-> t, atime |-> atime, xli |-> xli,
   xni |-> xni, no |-> 4, xlamo |-> 2 * ONE, xfact |-> -3, gsto |-> ONE,
   argpo |-> ONE, argpdot |-> 0, em |-> 100, argpm |-> ONE,
   inclm |-> ONE, mm |-> ONE, nodem |-> ONE, nm |-> 4,
   dedt |-> 0, didt |-> 0, dmdt |-> 0, dnodt |-> 0, domdt |-> 0]
  @@ Res(d)

CallerInit ==
  /\ satrec = SatRecNew
  /\ rec0 = SatRecNew
  /\ rp = 0
  /\ call = [kind |-> "new", t |-> 0, out |-> NoOut, tr |-> NoTrace,
             seen |-> {}, was |-> 0]
  /\ decayed = {}
  /\ afterReset = FALSE

DspaceIdle ==
  /\ dsO = DsOption(1, 0, 0, 0, 0, 0)
  /\ dsSt = DsEnter(dsO)
  /\ dsStart = 0
  /\ dsPc = "idle"

PureIdle ==
  /\ fn = "none"
  /\ args = <<>>
  /\ result = <<>>
  /\ procs = <<>>

Init == CallerInit /\ DspaceIdle /\ PureIdle

\* sgp4init on the new record, for one of the element sets.  call.was keeps
\* the irez the record had when the call was made.
Sgp4InitCall ==
  /\ call.kind = "new"
  /\ \E c \in Cases :
       \E i \in {Sgp4Init(satrec, c)} :
          /\ satrec' = i.rec
          /\ rec0' = i.rec
          /\ rp' = i.rp
  /\ call' = [kind |-> "sgp4init", t |-> 0, out |-> NoOut, tr |-> NoTrace,
              seen |-> {}, was |-> satrec.irez]
  /\ decayed' = {}
  /\ afterReset' = FALSE
  /\ UNCHANGED dspaceVars
  /\ UNCHANGED pureVars
  /\ UNCHANGED raceVars

\* sgp4 on an initialised record at one of the times.  decayed keeps the
\* times at which a call on this record has raised error 6, and call.seen
\* those of the calls before this one.
Sgp4Call ==
  /\ call.kind # "new"
  /\ \E tsince \in Times :
       \E c \in {Sgp4(satrec, tsince)} :
          /\ satrec' = c.satrec
          /\ call' = [kind |-> "sgp4", t |-> tsince, out |-> c.out,
                      tr |-> c.tr, seen |-> decayed, was |-> satrec.irez]
          /\ decayed' = IF c.satrec.error = 6
                        THEN decayed \cup {tsince} ELSE decayed
  /\ afterReset' = (call.kind = "reset")
  /\ UNCHANGED <<rec0, rp>>
  /\ UNCHANGED dspaceVars
  /\ UNCHANGED pureVars
  /\ UNCHANGED raceVars

\* The caller sets the record's atime to 0.
ResetAtime ==
  /\ call.kind = "sgp4"
  /\ satrec' = [satrec EXCEPT !.atime = 0]
  /\ call' = [call EXCEPT !.kind = "reset"]
  /\ UNCHANGED <<rec0, rp, decayed, afterReset>>
  /\ UNCHANGED dspaceVars
  /\ UNCHANGED pureVars
  /\ UNCHANGED raceVars

Next == Sgp4InitCall \/ Sgp4Call \/ ResetAtime

Spec == Init /\ [][Next]_vars

\* ------------------------------------------------------------------------
\* A record initialised again and again: sgp4init and sgp4 in any order on
\* one record.  The history of decays is not kept here.
\* ------------------------------------------------------------------------

\* The element sets of Cases, and near-earth ones whose perigee is next to
\* the 220 km limit on both sides.
ReinitCases ==
  Cases \cup
  {Elements(62, 80, 1100, 500, 100, 0, 0),
   Elements(62, 81, 1100, 500, 100, 0, 0)}

\* sgp4init on the record, new or in use, for one of the element sets.
Sgp4ReinitCall ==
  /\ \E c \in ReinitCases :
       \E i \in {Sgp4Init(satrec, c)} :
          /\ satrec' = i.rec
          /\ rec0' = i.rec
          /\ rp' = i.rp
  /\ call' = [kind |-> "sgp4init", t |-> 0, out |-> NoOut, tr |-> NoTrace,
              seen |-> {}, was |-> satrec.irez]
  /\ UNCHANGED <<decayed, afterReset>>
  /\ UNCHANGED dspaceVars
  /\ UNCHANGED pureVars
  /\ UNCHANGED raceVars

\* sgp4 on the initialised record at one of the times.
Sgp4CallAgain ==
  /\ call.kind # "new"
  /\ \E tsince \in Times :
       \E c \in {Sgp4(satrec, tsince)} :
          /\ satrec' = c.satrec
          /\ call' = [kind |-> "sgp4", t |-> tsince, out |-> c.out,
                      tr |-> c.tr, seen |-> {}, was |-> satrec.irez]
  /\ UNCHANGED <<rec0, rp, decayed, afterReset>>
  /\ UNCHANGED dspaceVars
  /\ UNCHANGED pureVars
  /\ UNCHANGED raceVars

NextReinit == Sgp4ReinitCall \/ Sgp4CallAgain

SpecReinit == Init /\ [][NextReinit]_vars

\* ------------------------------------------------------------------------
\* dspace taken alone, one pass of its loop at a time, on the options of a
\* resonant record with any carried integrator state.
\* ------------------------------------------------------------------------

\* The carried atime is a whole number of steps, up to MaxSteps each way,
\* and the times are the multiples of TimeGrid minutes up to MaxDsK.
MaxSteps == 2

MaxDsK == 6

DsTimes == {k * TimeGrid : k \in -MaxDsK..MaxDsK}

DsOptions ==
  {DsOption(irez, t, k * STEPP, xli, xni, d) :
     irez \in {1, 2}, t \in DsTimes, k \in -MaxSteps..MaxSteps,
     xli \in {0, 2 * ONE}, xni \in {4, 5}, d \in {0, 1}}

DspaceInit == CallerInit /\ DspaceIdle /\ PureIdle

\* dspace is called with one of the options; the entry of the resonant
\* branch: restart from the epoch or go on.
DspaceEnter ==
  /\ dsPc = "idle"
  /\ \E o \in DsOptions :
       /\ o.irez # 0
       /\ dsO' = o
       /\ dsSt' = DsEnter(o)
  /\ dsStart' = dsSt'.atime
  /\ dsPc' = "loop"
  /\ UNCHANGED callerVars
  /\ UNCHANGED pureVars
  /\ UNCHANGED raceVars

\* One pass of the loop: the dot terms, then a step or the remainder.
DspaceIter ==
  /\ dsPc = "loop"
  /\ \E r \in {DsRates(dsO, dsSt)} :
       \E st \in {DsPass(dsO, dsSt, DsDelt(dsO.t), r)} :
         /\ dsSt' = st
         /\ dsPc' = IF st.iretn = 381 THEN "loop" ELSE "done"
  /\ UNCHANGED <<dsO, dsStart>>
  /\ UNCHANGED callerVars
  /\ UNCHANGED pureVars
  /\ UNCHANGED raceVars

\* dspace returns and its locals are gone.
DspaceReturn ==
  /\ dsPc = "done"
  /\ dsO' = DsOption(1, 0, 0, 0, 0, 0)
  /\ dsSt' = DsEnter(dsO')
  /\ dsStart' = 0
  /\ dsPc' = "idle"
  /\ UNCHANGED callerVars
  /\ UNCHANGED pureVars
  /\ UNCHANGED raceVars

NextDspace == DspaceEnter \/ DspaceIter \/ DspaceReturn

SpecDspace == DspaceInit /\ [][NextDspace]_vars

\* dspace with its loop scheduled: a pass of the loop that can be taken is
\* taken (the loop is straight-line code between its test and its jump).
SpecDspaceFair == SpecDspace /\ WF_vars(DspaceIter)

\* ------------------------------------------------------------------------
\* sgp4init taken alone, on a new record, over a grid of element sets on
\* both sides of the 225 minute limit and of the resonance bands.
\* ------------------------------------------------------------------------

InitNos == {4, 5, 6, 8, 9, 15, 27, 28, 40, 62}

InitEccos == {1, 100, 499, 500, 600, 990}

InitInclos == {100, 1100, 3000}

InitCases ==
  {Elements(no, ecco, inclo, 0, 1, g, d) :
     no \in InitNos, ecco \in InitEccos, inclo \in InitInclos,
     g \in {0, 50}, d \in {0, 1}}

InitInit ==
  /\ CallerInit
  /\ DspaceIdle
  /\ fn = "none"
  /\ args \in InitCases
  /\ result = <<>>
  /\ procs = <<>>

\* sgp4init on the new record with the element set drawn; result keeps the
\* record as it is handed to the closing sgp4 call.
Sgp4InitOnce ==
  /\ fn = "none"
  /\ \E b \in {Sgp4InitBody(satrec, args)} :
       \E i \in {Sgp4InitEnd(b)} :
          /\ satrec' = i.rec
          /\ rec0' = i.rec
          /\ rp' = i.rp
          /\ result' = b.rec
  /\ fn' = "sgp4init"
  /\ call' = [kind |-> "sgp4init", t |-> 0, out |-> NoOut, tr |-> NoTrace,
              seen |-> {}, was |-> satrec.irez]
  /\ UNCHANGED <<args, decayed, afterReset>>
  /\ UNCHANGED dspaceVars
  /\ UNCHANGED raceVars

NextInit == Sgp4InitOnce

SpecInit == InitInit /\ [][NextInit]_vars

\* ------------------------------------------------------------------------
\* One call of sgp4 on a record sgp4init has just initialised, over the
\* element sets of Cases and element sets that bring the mean eccentricity
\* to -0.002, -0.001, 0, 0.999 and 1 (near-earth, with drag, 720 minutes
\* before the epoch) and the perturbed eccentricity to -0.001, 0, 1 and
\* 1.001 (deep space, 1440 minutes before the epoch).
\* ------------------------------------------------------------------------

CheckCases ==
  Cases \cup
  {Elements(62, ecco, 1100, 500, 100, 0, 0) : ecco \in {5, 6, 7, 8}} \cup
  {Elements(62, ecco, 1100, 6, 100, 0, 0) : ecco \in {279, 280}} \cup
  {Elements(4, ecco, 1100, 0, 1, 50, 0) : ecco \in {987, 988}} \cup
  {Elements(4, ecco, 1100, 0, 1, -50, 0) : ecco \in {12, 13, 14}}

ChecksInit ==
  /\ CallerInit
  /\ DspaceIdle
  /\ fn = "none"
  /\ args \in CheckCases
  /\ result = <<>>
  /\ procs = <<>>

\* sgp4 on the record, once.
Sgp4Once ==
  /\ fn = "sgp4init"
  /\ fn' = "sgp4"
  /\ \E tsince \in Times :
       \E c \in {Sgp4(satrec, tsince)} :
          /\ satrec' = c.satrec
          /\ result' = c.out
          /\ call' = [kind |-> "sgp4", t |-> tsince, out |-> c.out,
                      tr |-> c.tr, seen |-> {}, was |-> satrec.irez]
  /\ UNCHANGED <<args, rec0, rp, decayed, afterReset>>
  /\ UNCHANGED dspaceVars
  /\ UNCHANGED raceVars

NextChecks == Sgp4InitOnce \/ Sgp4Once

SpecChecks == ChecksInit /\ [][NextChecks]_vars

\* ------------------------------------------------------------------------
\* The Kepler iteration of sgp4 taken alone, one pass of its loop at a
\* time, over anomalies around the circle and eccentricity vectors from
\* circular to nearly parabolic.
\* ------------------------------------------------------------------------

KeplerUs == {0, 500, HALF_PI, 3000, PI, 5000, TWO_PI - 1}

KeplerAxnls == {-990, -500, 0, 1, 500, 990}

KeplerAynls == {-990, -20, 0, 500, 990}

KeplerInit ==
  /\ CallerInit
  /\ DspaceIdle
  /\ fn = "none"
  /\ args \in [u : KeplerUs, axnl : KeplerAxnls, aynl : KeplerAynls]
  /\ result = <<>>
  /\ procs = <<>>

\* The loop is reached.
KeplerEnter ==
  /\ fn = "none"
  /\ fn' = "kepler"
  /\ result' = KeplerStart(args.u)
  /\ UNCHANGED args
  /\ UNCHANGED callerVars
  /\ UNCHANGED dspaceVars
  /\ UNCHANGED raceVars

\* The loop's test holds: one pass of its body.
KeplerIter ==
  /\ fn = "kepler"
  /\ KeplerGoesOn(result)
  /\ result' = KeplerStep(result, args.u, args.axnl, args.aynl)
  /\ UNCHANGED <<fn, args>>
  /\ UNCHANGED callerVars
  /\ UNCHANGED dspaceVars
  /\ UNCHANGED raceVars

\* The loop's test fails: the loop is left.
KeplerExit ==
  /\ fn = "kepler"
  /\ ~KeplerGoesOn(result)
  /\ fn' = "solved"
  /\ UNCHANGED <<args, result>>
  /\ UNCHANGED callerVars
  /\ UNCHANGED dspaceVars
  /\ UNCHANGED raceVars

NextKepler == KeplerEnter \/ KeplerIter \/ KeplerExit

SpecKepler == KeplerInit /\ [][NextKepler]_vars

\* The loop scheduled: its test and its body are straight-line code, so a
\* pass or the exit that can be taken is taken.
SpecKeplerFair ==
  SpecKepler /\ WF_vars(KeplerIter) /\ WF_vars(KeplerExit)

\* ------------------------------------------------------------------------
\* xlcof taken alone, as sgp4init computes it from the epoch inclination
\* and as sgp4 computes it for a deep-space record from the perturbed one,
\* over inclinations from 0 to pi in steps of 0.05 and next to pi.
\* ------------------------------------------------------------------------

XlcofInclos == {50 * k : k \in 0..62} \cup {PI - 1, PI, PI + 1}

XlcofInit ==
  /\ CallerInit
  /\ DspaceIdle
  /\ fn = "none"
  /\ args \in [inclo : XlcofInclos]
  /\ result = <<>>
  /\ procs = <<>>

\* xlcof and its divisor, at both places.
XlcofCall ==
  /\ fn = "none"
  /\ fn' = "xlcof"
  /\ result' =
       [init |-> InitXlcof([cosio |-> Cos(args.inclo),
                            sinio |-> Sin(args.inclo)]),
        initDivisor |-> InitXlcofDivisor(Cos(args.inclo)),
        sgp4 |-> Sgp4LongPeriod([SatRecNew EXCEPT !.method = "d"],
                                args.inclo).xlcof,
        sgp4Divisor |-> Sgp4XlcofDivisor(Cos(args.inclo))]
  /\ UNCHANGED args
  /\ UNCHANGED callerVars
  /\ UNCHANGED dspaceVars
  /\ UNCHANGED raceVars

NextXlcof == XlcofCall

SpecXlcof == XlcofInit /\ [][NextXlcof]_vars

\* ------------------------------------------------------------------------
\* The dot terms of the first pass of dspace's loop for a synchronous
\* record that carries its integrator state, over values of xli around the
\* circle and del1, del2, del3 each 0 or 1.
\* ------------------------------------------------------------------------

RatesXlis == {0, 500, ONE, 2 * ONE, 3 * ONE, FASX4 + HALF_PI, 5 * ONE, 6 * ONE}

RatesOptions ==
  {[DsOption(1, STEPP, STEPP, xli, 4, 0)
      EXCEPT !.del1 = a, !.del2 = b, !.del3 = c] :
     xli \in RatesXlis, a \in {0, ONE}, b \in {0, ONE}, c \in {0, ONE}}

RatesInit ==
  /\ CallerInit
  /\ DspaceIdle
  /\ fn = "none"
  /\ args \in RatesOptions
  /\ result = <<>>
  /\ procs = <<>>

\* The dot terms of the pass that follows the loop's entry.
RatesCall ==
  /\ fn = "none"
  /\ fn' = "rates"
  /\ result' = DsRates(args, DsEnter(args))
  /\ UNCHANGED args
  /\ UNCHANGED callerVars
  /\ UNCHANGED dspaceVars
  /\ UNCHANGED raceVars

NextRates == RatesCall

SpecRates == RatesInit /\ [][NextRates]_vars

\* ------------------------------------------------------------------------
\* dpper taken alone with init = 'n', in both operation modes, on
\* deep-space records of inclinations on both sides of 0.2 rad at two
\* times, and nodes from below -2 pi to above 2 pi.
\* ------------------------------------------------------------------------

DpperInclos == {100, 190, 199, 200, 230, 1100}

DpperNodes == {-7000, -6000, -4000, -3000, -200, 0, 200, 3000, 4000, 6000, 7000}

DpperRecs ==
  {[Sgp4InitBody(SatRecNew, Elements(4, 100, inclo, 0, 1, g, 0)).rec
      EXCEPT !.t = t] :
     inclo \in DpperInclos, g \in {-50, 50}, t \in {0, 2 * TimeGrid}}

DpperInit ==
  /\ CallerInit
  /\ DspaceIdle
  /\ fn = "none"
  /\ \E rec \in DpperRecs, nodep \in DpperNodes, opsmode \in {"a", "i"} :
       args = [rec |-> [rec EXCEPT !.operationmode = opsmode],
               o |-> [init |-> "n", ep |-> rec.ecco, inclp |-> rec.inclo,
                      nodep |-> nodep, argpp |-> rec.argpo, mp |-> rec.mo,
                      opsmode |-> opsmode]]
  /\ result = <<>>
  /\ procs = <<>>

\* dpper on the record and the option drawn.
DpperCall ==
  /\ fn = "none"
  /\ fn' = "dpper"
  /\ result' = Dpper(args.rec, args.o)
  /\ UNCHANGED args
  /\ UNCHANGED callerVars
  /\ UNCHANGED dspaceVars
  /\ UNCHANGED raceVars

NextDpper == DpperCall

SpecDpper == DpperInit /\ [][NextDpper]_vars

\* ------------------------------------------------------------------------
\* days2mdhms taken alone.  A day-of-year value is a whole number of
\* half seconds, so floor, the products by 24 and by 60 and the casts to
\* u64 are exact; year and days range over the documented input ranges.
\* ------------------------------------------------------------------------

TICKS_PER_DAY == 172800

Days2mdhmsYears == {1900, 1957, 1999, 2000, 2001, 2004, 2056, 2100}

Days2mdhmsFractions == {0, 1, 7199, 7200, 86400, TICKS_PER_DAY - 1}

Days2mdhmsDays ==
  {(d * TICKS_PER_DAY) + f : d \in 0..365, f \in Days2mdhmsFractions}
    \cup {366 * TICKS_PER_DAY}

\* The array of the lengths of the months.
Lmonth(year) ==
  <<31, IF (year % 4) = 0 THEN 29 ELSE 28, 31, 30, 31, 30, 31, 31, 30, 31,
    30, 31>>

\* The loop over the months: i and inttemp when it is left.
RECURSIVE Days2mdhmsLoop(_, _, _, _)
Days2mdhmsLoop(i, inttemp, dayofyr, lmonth) ==
  IF dayofyr > inttemp + lmonth[i] /\ i < 12
    THEN Days2mdhmsLoop(i + 1, inttemp + lmonth[i], dayofyr, lmonth)
    ELSE [i |-> i, inttemp |-> inttemp]

\* The date of a day of the year: floor, the loop, then hour, minute and
\* second of the fraction of the day, each product floored or cast as the
\* code does.
Days2mdhms(year, days) ==
  LET dayofyr == days \div TICKS_PER_DAY
      m == Days2mdhmsLoop(1, 0, dayofyr, Lmonth(year))
      fraction == days - (dayofyr * TICKS_PER_DAY)
      hour == (fraction * 24) \div TICKS_PER_DAY
      temp == ((fraction * 24) - (hour * TICKS_PER_DAY)) * 60
      minute == temp \div TICKS_PER_DAY
  IN [month |-> m.i,
      day |-> dayofyr - m.inttemp,
      hour |-> hour,
      minute |-> minute,
      second |-> ((temp - (minute * TICKS_PER_DAY)) * 60) \div TICKS_PER_DAY]

\* The year twoline2satrec makes of the two digits of the epoch.
TwolineYear(epochyr) ==
  IF epochyr < 57 THEN epochyr + 2000 ELSE epochyr + 1900

Days2mdhmsInit ==
  /\ CallerInit
  /\ DspaceIdle
  /\ fn = "none"
  /\ args \in [year : Days2mdhmsYears, days : Days2mdhmsDays]
  /\ result = <<>>
  /\ procs = <<>>

Days2mdhmsCall ==
  /\ fn = "none"
  /\ fn' = "days2mdhms"
  /\ result' = [year |-> args.year, days |-> args.days,
                date |-> Days2mdhms(args.year, args.days)]
  /\ UNCHANGED args
  /\ UNCHANGED callerVars
  /\ UNCHANGED dspaceVars
  /\ UNCHANGED raceVars

\* twoline2satrec up to the call of jday: the record is the new record,
\* whose epochyr is 0 and whose epochdays is 0.0, whatever the two lines.
TwolineEpochCall ==
  /\ fn = "none"
  /\ fn' = "twoline2satrec"
  /\ result' = [year |-> TwolineYear(0), days |-> 0,
                date |-> Days2mdhms(TwolineYear(0), 0)]
  /\ UNCHANGED args
  /\ UNCHANGED callerVars
  /\ UNCHANGED dspaceVars
  /\ UNCHANGED raceVars

NextDays2mdhms == Days2mdhmsCall \/ TwolineEpochCall

SpecDays2mdhms == Days2mdhmsInit /\ [][NextDays2mdhms]_vars

\* ------------------------------------------------------------------------
\* initl taken alone, over inclinations from 0 to pi and mean motions on
\* both sides of the 225 minute limit.
\* ------------------------------------------------------------------------

InitlInclos == {0, 100, 1100, HALF_PI, 2000, 3000, PI}

InitlEccos == {1, 185, 600}

InitlInit ==
  /\ CallerInit
  /\ DspaceIdle
  /\ fn = "none"
  /\ args \in [ecco : InitlEccos, inclo : InitlInclos, no : InitNos]
  /\ result = <<>>
  /\ procs = <<>>

\* initl on the options drawn.
InitlCall ==
  /\ fn = "none"
  /\ fn' = "initl"
  /\ result' = Initl(args.ecco, args.inclo, args.no, ONE)
  /\ UNCHANGED args
  /\ UNCHANGED callerVars
  /\ UNCHANGED dspaceVars
  /\ UNCHANGED raceVars

NextInitl == InitlCall

SpecInitl == InitlInit /\ [][NextInitl]_vars

\* ------------------------------------------------------------------------
\* The resonance classification of dsinit taken alone, on mean motions in
\* units of 1e-10 rad/min at, next to and away from the limits of the two
\* bands, and eccentricities at, next to and away from 0.5.
\* ------------------------------------------------------------------------

IrezNms ==
  {-40000000, 0, 20000000, 34906584, 34906585, 34906586, 43633231,
   52359876, 52359877, 52359878, 70000000, 82599999, 82600000, 82600001,
   87266463, 92399999, 92400000, 92400001, 100000000, 620000000}

IrezEms == {0, 100, 499, 500, 501, 990}

IrezInit ==
  /\ CallerInit
  /\ DspaceIdle
  /\ fn = "none"
  /\ args \in [nm : IrezNms, em : IrezEms]
  /\ result = <<>>
  /\ procs = <<>>

\* The irez dsinit finds for the nm and em drawn.
DsinitIrezCall ==
  /\ fn = "none"
  /\ fn' = "irez"
  /\ result' = DsinitIrezAt(args.nm, args.em)
  /\ UNCHANGED args
  /\ UNCHANGED callerVars
  /\ UNCHANGED dspaceVars
  /\ UNCHANGED raceVars

NextIrez == DsinitIrezCall

SpecIrez == IrezInit /\ [][NextIrez]_vars

\* ------------------------------------------------------------------------
\* dsinit taken alone, on options of the three resonance classes, with and
\* without integrator values passed in, and with angles that make the
\* argument of xlamo positive and negative.
\* ------------------------------------------------------------------------

\* The integrator and resonance values passed in: those of a zeroed record
\* and those of a record in use.
DsinitCarried ==
  {[atime |-> 0, xli |-> 0, xni |-> 0, xlamo |-> 0, xfact |-> 0],
   [atime |-> 720, xli |-> 2 * ONE, xni |-> 7, xlamo |-> 500, xfact |-> -3]}

DsinitOption(nm, dno, em, mo, nodeo, gsto, carried) ==
  [nm |-> nm, no |-> nm + dno, em |-> em, emsq |-> Mul(em, em),
   ecco |-> em, eccsq |-> Mul(em, em), mo |-> mo, nodeo |-> nodeo,
   argpo |-> ONE, gsto |-> gsto, t |-> 0, tc |-> 0, mdot |-> nm,
   nodedot |-> 0, xpidot |-> 0, irez |-> 0, inclm |-> 1100,
   sinim |-> Sin(1100), cosim |-> Cos(1100), argpm |-> 0, mm |-> 0,
   nodem |-> 0, dedt |-> 0, didt |-> 0, dmdt |-> 0, dnodt |-> 0,
   domdt |-> 0]
  @@ carried @@ Res(0) @@ Geom(50)

DsinitOptions ==
  {DsinitOption(nm, dno, em, mo, nodeo, gsto, carried) :
     nm \in {4, 9, 15}, dno \in {0, 1}, em \in {100, 600},
     mo \in {0, 2 * ONE, 6 * ONE}, nodeo \in {0, 3 * ONE},
     gsto \in {ONE, 5 * ONE}, carried \in DsinitCarried}

DsinitInit ==
  /\ CallerInit
  /\ DspaceIdle
  /\ fn = "none"
  /\ args \in DsinitOptions
  /\ result = <<>>
  /\ procs = <<>>

\* dsinit on the options drawn.
DsinitCall ==
  /\ fn = "none"
  /\ fn' = "dsinit"
  /\ result' = Dsinit(args, Res(1))
  /\ UNCHANGED args
  /\ UNCHANGED callerVars
  /\ UNCHANGED dspaceVars
  /\ UNCHANGED raceVars

NextDsinit == DsinitCall

SpecDsinit == DsinitInit /\ [][NextDsinit]_vars

\* ------------------------------------------------------------------------
\* Two calls of sgp4 at different times on one initialised deep-space
\* record, without exclusion: each call is cut where sgp4 reads or writes
\* fields of the record, and the pieces of the two calls run in any order.
\* ------------------------------------------------------------------------

RaceTimes == {-2 * TimeGrid, 0, TimeGrid, MaxK * TimeGrid}

\* A synchronous, a half-day resonant and a non-resonant element set.
RaceCases ==
  {Elements(4, 100, 1100, 0, 1, 50, 1),
   Elements(9, 600, 1100, 0, 1, 50, 1),
   Elements(15, 100, 3000, 0, 1, 50, 0)}

\* A call of sgp4 for tsince = t that has not begun: seq is its rank among
\* the calls begun, by the call whose t was in the record when this one
\* made its secular update, overlap whether it began during the other.
RaceProc(t) ==
  [pc |-> "idle", t |-> t, seq |-> 0, by |-> 0, overlap |-> FALSE,
   c |-> <<>>, out |-> NoOut]

RaceInit ==
  /\ satrec \in {Sgp4Init(SatRecNew, c).rec : c \in RaceCases}
  /\ rec0 = satrec
  /\ rp = 0
  /\ call = [kind |-> "sgp4init", t |-> 0, out |-> NoOut, tr |-> NoTrace,
             seen |-> {}, was |-> 0]
  /\ decayed = {}
  /\ afterReset = FALSE
  /\ DspaceIdle
  /\ fn = "none"
  /\ args = <<>>
  /\ result = <<>>
  /\ procs \in {<<RaceProc(q[1]), RaceProc(q[2])>> :
                  q \in {r \in RaceTimes \X RaceTimes : r[1] < r[2]}}

Other(i) == 3 - i

\* The call that wrote satrec.t last, for a call i that has begun.
RaceLast(i) ==
  IF procs[Other(i)].seq > procs[i].seq THEN Other(i) ELSE i

\* A call that reads its own tsince where sgp4 reads satrec.t.
RaceReadOwnT(p, rec) == [rec EXCEPT !.t = p.t]

\* The record as a piece of the call p reads it: the one record, whatever
\* the other call has written to it (satrec is a &mut SatRec, and satrec.t
\* is read back from it).
RaceRead(p, rec) == rec

\* The locals of the call with the record as it is now.
RaceCtx(p, rec) == [p.c EXCEPT !.s = RaceRead(p, rec)]

\* The record after a piece that read it as read and left it as written:
\* the fields the piece assigned take their new values.
RaceWrite(rec, read, written) ==
  [f \in DOMAIN rec |-> IF written[f] # read[f] THEN written[f] ELSE rec[f]]

RaceOthers == <<rec0, rp, call, decayed, afterReset, fn, args, result>>

\* satrec.t = tsince; satrec.error = 0
RaceStart(i) ==
  /\ procs[i].pc = "idle"
  /\ satrec' = Sgp4Clear(satrec, procs[i].t)
  /\ procs' = [procs EXCEPT
                 ![i].pc = "mean",
                 ![i].seq = procs[Other(i)].seq + 1,
                 ![i].overlap = procs[Other(i)].pc \notin {"idle", "done"}]
  /\ UNCHANGED RaceOthers
  /\ UNCHANGED dspaceVars

\* The secular update and dspace, from satrec.t and the record's elements.
RaceMean(i) ==
  /\ procs[i].pc = "mean"
  /\ \E c \in {Sgp4Mean(RaceRead(procs[i], satrec))} :
       /\ satrec' = RaceWrite(satrec, RaceRead(procs[i], satrec), c.s)
       /\ procs' = [procs EXCEPT ![i].pc = "periodics", ![i].c = c,
                                 ![i].by = RaceLast(i)]
  /\ UNCHANGED RaceOthers
  /\ UNCHANGED dspaceVars

\* dpper, which reads satrec.t and the series coefficients.
RacePeriodics(i) ==
  /\ procs[i].pc = "periodics"
  /\ \E c \in {Sgp4Periodics(RaceCtx(procs[i], satrec))} :
       /\ satrec' = RaceWrite(satrec, RaceRead(procs[i], satrec), c.s)
       /\ procs' = [procs EXCEPT ![i].pc = "long", ![i].c = c]
  /\ UNCHANGED RaceOthers
  /\ UNCHANGED dspaceVars

\* The long-period periodics, which assign and read aycof and xlcof.
RaceLong(i) ==
  /\ procs[i].pc = "long"
  /\ \E c \in {Sgp4Long(RaceCtx(procs[i], satrec))} :
       /\ satrec' = RaceWrite(satrec, RaceRead(procs[i], satrec), c.s)
       /\ procs' = [procs EXCEPT ![i].pc = "solve", ![i].c = c]
  /\ UNCHANGED RaceOthers
  /\ UNCHANGED dspaceVars

\* Kepler's equation, then con41, x1mth2 and x7thm1 assigned.
RaceSolve(i) ==
  /\ procs[i].pc = "solve"
  /\ \E c \in {Sgp4Solve(RaceCtx(procs[i], satrec))} :
       /\ satrec' = RaceWrite(satrec, RaceRead(procs[i], satrec), c.s)
       /\ procs' = [procs EXCEPT ![i].pc = "short", ![i].c = c]
  /\ UNCHANGED RaceOthers
  /\ UNCHANGED dspaceVars

\* The short-period terms and the vectors, which read con41, x1mth2 and
\* x7thm1; the error of a failed call assigned; the Result returned.
RaceFinish(i) ==
  /\ procs[i].pc = "short"
  /\ \E r \in {Sgp4Return(Sgp4Orient(Sgp4Short(RaceCtx(procs[i], satrec))))} :
       /\ satrec' = RaceWrite(satrec, RaceRead(procs[i], satrec), r.satrec)
       /\ procs' = [procs EXCEPT ![i].pc = "done", ![i].out = r.out]
  /\ UNCHANGED RaceOthers
  /\ UNCHANGED dspaceVars

NextRace ==
  \E i \in {1, 2} :
     \/ RaceStart(i)
     \/ RaceMean(i)
     \/ RacePeriodics(i)
     \/ RaceLong(i)
     \/ RaceSolve(i)
     \/ RaceFinish(i)

SpecRace == RaceInit /\ [][NextRace]_vars

\* ------------------------------------------------------------------------
\* The properties.
\* ------------------------------------------------------------------------

\* The sgp4 calls that were made on the record since sgp4init.
Called == call.kind \in {"sgp4", "reset"}

\* The last call was sgp4 on a resonant deep-space record.
CalledResonant ==
  call.kind = "sgp4" /\ satrec.method = "d" /\ satrec.irez # 0

\* C1: whatever sgp4 calls came before, the outcome of the call at time t
\* (the vector, or the error) is the outcome of sgp4 at t on the record as
\* sgp4init left it.
C1_HistoryIndependent ==
  call.kind = "sgp4" => call.out = Sgp4(rec0, call.t).out

\* A call that failed with error 4 on a record on which an earlier call had
\* failed with error 6.
C1_Witness ==
  call.kind = "sgp4" /\ satrec.error = 4 /\ call.seen # {}

\* C2: after a call of sgp4 on a resonant deep-space record to a time t with
\* |t| >= 720, the record's atime, xli and xni are those the dspace
\* integrator reached.
C2_IntegratorCarried ==
  (CalledResonant /\ Abs(call.t) >= STEPP)
    => /\ satrec.atime = call.tr.ds.atime
       /\ satrec.xli = call.tr.ds.xli
       /\ satrec.xni = call.tr.ds.xni

\* The fields C3 lets a call of sgp4 change.
C3_Written == {"t", "error", "atime", "xli", "xni"}

\* The coefficients sgp4 recomputes and stores for a deep-space record.
C3_DeepWritten == {"aycof", "xlcof", "con41", "x1mth2", "x7thm1"}

C4_ErrorMirrorsOutcome ==
  call.kind = "sgp4"
    => /\ call.out.ok <=> (satrec.error = 0)
       /\ (~call.out.ok) <=> (satrec.error \in {1, 2, 3, 4, 6})
       /\ call.out.ok => call.out.err = "none"
       /\ (~call.out.ok) => call.out.err \in {"FF", "FpFv"}
       /\ satrec.error = Sgp4(rec0, call.t).satrec.error

\* A call that returned a vector and left error = 0 on a record on which an
\* earlier call had failed with error 6.
C4_Witness ==
  call.kind = "sgp4" /\ call.out.ok /\ satrec.error = 0 /\ call.seen # {}

C6_DecayExactlyBelowSurface ==
  call.kind = "sgp4"
    => /\ (satrec.error = 6) <=> (call.tr.checks >= 4 /\ call.tr.mrt < ONE)
       /\ (satrec.error = 6)
            => /\ call.out = [ok |-> FALSE, err |-> "FpFv",
                              r |-> <<>>, v |-> <<>>]
               /\ call.tr.checks = 4
       /\ (call.tr.checks = 5) => (call.out.ok /\ call.tr.mrt >= ONE)
       /\ (call.tr.checks < 4) => satrec.error \in {1, 2, 3, 4}

\* The first call of a forward propagation to raise error 6.
C6_Witness ==
  /\ call.kind = "sgp4" /\ satrec.error = 6 /\ call.seen = {}
  /\ call.t > 0 /\ call.tr.mrt < ONE

C9_Reset(t, atime) == atime = 0 \/ t * atime <= 0 \/ Abs(t) < Abs(atime)

\* C9: on entry to the loop the integrator is (0, no, xlamo) when atime = 0,
\* t*atime <= 0 or |t| < |atime| holds of the options, and the carried
\* (atime, xli, xni) when none of them holds.
C9_ResetExactly ==
  (dsPc = "loop" /\ dsSt.steps = 0)
    => /\ C9_Reset(dsO.t, dsO.atime)
            => (dsSt.atime = 0 /\ dsSt.xni = dsO.no /\ dsSt.xli = dsO.xlamo)
       /\ ~C9_Reset(dsO.t, dsO.atime)
            => /\ dsSt.atime = dsO.atime /\ dsSt.xni = dsO.xni
               /\ dsSt.xli = dsO.xli
               /\ dsO.t * dsO.atime > 0 /\ Abs(dsO.t) >= Abs(dsO.atime)

\* dspace has entered its loop with a time that moved backward, short of
\* the carried atime and on the same side of the epoch.
C9_Witness ==
  /\ dsPc = "loop" /\ dsSt.steps = 0
  /\ dsO.atime # 0 /\ dsO.t * dsO.atime > 0 /\ Abs(dsO.t) < Abs(dsO.atime)
  /\ dsO.xli # dsO.xlamo /\ dsSt.xli = dsO.xlamo

\* What holds of the loop at every pass.
C10_Loop ==
  /\ dsPc \in {"loop", "done"}
       => /\ dsSt.atime
               = dsStart + (dsSt.steps * (IF dsO.t > 0 THEN 720 ELSE -720))
          /\ dsSt.steps >= 1
               => Abs(dsO.t - (dsSt.atime
                               - (IF dsO.t > 0 THEN 720 ELSE -720))) >= 720
          /\ (dsSt.steps * 720) + Abs(dsO.t - dsSt.atime)
               = Abs(dsO.t - dsStart)
  /\ dsPc = "done"
       => /\ Abs(dsO.t - dsSt.atime) < 720
          /\ dsSt.ft = dsO.t - dsSt.atime
          /\ dsStart = 0 => dsSt.steps = Abs(dsO.t) \div 720

\* C10: the loop terminates; it moves atime by +720 when t > 0 and by -720
\* otherwise, takes a step only while |t - atime| >= 720, and exits with
\* |t - atime| < 720 and ft = t - atime, after floor(|t|/720) steps when it
\* started from atime = 0.
C10_LoopTerminates ==
  /\ []C10_Loop
  /\ (dsPc = "loop") ~> (dsPc = "done")

\* The loop has exited after a step backward from a carried atime, with a
\* remainder.
C10_Witness ==
  /\ dsPc = "done" /\ dsSt.steps >= 1 /\ dsO.t < 0 /\ dsStart # 0
  /\ dsSt.ft # 0

\* C11: after any sequence of sgp4init and sgp4 calls the record's irez is
\* 0, 1 or 2 and a resonant record (irez # 0) is a deep-space one
\* (method 'd'); a sgp4init with near-earth elements on a record that was
\* resonant leaves irez = 0.
C11_IrezConsistent ==
  /\ satrec.irez \in {0, 1, 2}
  /\ satrec.irez # 0 => satrec.method = "d"
  /\ (call.kind = "sgp4init" /\ call.was # 0 /\ ~IsDeepSpace(satrec.no))
       => satrec.irez = 0

\* A resonant record has been initialised again with near-earth elements.
C11_Witness ==
  /\ call.kind = "sgp4init"
  /\ call.was \in {1, 2}
  /\ ~IsDeepSpace(satrec.no)
  /\ satrec.method = "n"
  /\ satrec.irez = 0

\* C12: after sgp4init the method is 'd' exactly when 2*pi/no >= 225
\* minutes for the mean motion no the record holds (the un-Kozai'd one), and
\* 'n' otherwise.
C12_MethodByPeriod ==
  fn = "sgp4init" =>
    /\ satrec.method \in {"n", "d"}
    /\ satrec.method = "d" <=> Div(TWO_PI, satrec.no) >= 225 * ONE

\* A record next to the limit, of period 232.7 minutes.
C12_Witness ==
  /\ fn = "sgp4init"
  /\ satrec.no = 27
  /\ satrec.method = "d"

\* C13: dsinit finds irez = 1 exactly when 0.0034906585 < nm < 0.0052359877,
\* irez = 2 exactly when 8.26e-3 <= nm <= 9.24e-3 and em >= 0.5, and irez = 0
\* in every other case; no nm is in both ranges.
C13_ResonanceClass ==
  fn = "irez" =>
    /\ result = 1 <=> (34906585 < args.nm /\ args.nm < 52359877)
    /\ result = 2 <=> (82600000 <= args.nm /\ args.nm <= 92400000
                         /\ args.em >= 500)
    /\ result = 0 <=> ~(34906585 < args.nm /\ args.nm < 52359877)
                       /\ ~(82600000 <= args.nm /\ args.nm <= 92400000
                             /\ args.em >= 500)
    /\ ~((34906585 < args.nm /\ args.nm < 52359877)
          /\ (82600000 <= args.nm /\ args.nm <= 92400000))

\* The half-day band takes its lower limit and the eccentricity 0.5 in.
C13_Witness ==
  /\ fn = "irez"
  /\ args.nm = 82600000
  /\ args.em = 500
  /\ result = 2

\* C14 as stated: for every input and every resonance class, dsinit returns
\* xli = xlamo, xni = the no passed in and atime = 0.
C14_IntegratorInitialised ==
  fn = "dsinit" =>
    /\ result.xli = result.xlamo
    /\ result.xni = args.no
    /\ result.atime = 0

\* C14: for every input of resonance class 1 or 2, dsinit returns
\* xli = xlamo, xni = the no passed in and atime = 0, whatever xli, xni and
\* atime were passed in; for irez = 0 it returns the xli, xni and atime
\* passed in.
C14_IntegratorInitialisedIfResonant ==
  fn = "dsinit" =>
    IF result.irez # 0
    THEN /\ result.xli = result.xlamo
         /\ result.xni = args.no
         /\ result.atime = 0
    ELSE /\ result.xli = args.xli
         /\ result.xni = args.xni
         /\ result.atime = args.atime

\* A resonant input with other integrator values passed in.
C14_Witness ==
  /\ fn = "dsinit"
  /\ result.irez = 2
  /\ args.atime = 720
  /\ args.xni # args.no
  /\ args.xli # result.xlamo
  /\ result.atime = 0
  /\ result.xni = args.no
  /\ result.xli = result.xlamo

\* C15: for every resonant input (irez = 1 or irez = 2) the xlamo dsinit
\* computes lies in [0, 2*pi), whatever mo, nodeo, argpo and theta are.
C15_XlamoInRange ==
  (fn = "dsinit" /\ result.irez \in {1, 2}) =>
    (0 <= result.xlamo /\ result.xlamo < TWO_PI)

\* C16: the dpper call with init = Y of sgp4init leaves in the record, as
\* peo, pinco, plo, pgho and pho, the corrections pe, pinc, pl, pgh and ph
\* it computed at the epoch.
C16_BaselineStored ==
  (fn = "sgp4init" /\ satrec.method = "d") =>
    /\ satrec.peo = DpperPeriodics(result, "y").pe
    /\ satrec.pinco = DpperPeriodics(result, "y").pinc
    /\ satrec.plo = DpperPeriodics(result, "y").pl
    /\ satrec.pgho = DpperPeriodics(result, "y").pgh
    /\ satrec.pho = DpperPeriodics(result, "y").ph

\* C17: dpper with init = Y returns the ep, inclp, nodep, argpp and mp it
\* was given, and after sgp4init on a deep-space record ecco, inclo, nodeo,
\* argpo and mo are the elements sgp4init was called with.
C17_EpochElementsKept ==
  (fn = "sgp4init" /\ satrec.method = "d") =>
    /\ result.init = "y"
    /\ Dpper(result, InitDpperOption(result))
         = [ep |-> result.ecco, inclp |-> result.inclo,
            nodep |-> result.nodeo, argpp |-> result.argpo,
            mp |-> result.mo]
    /\ satrec.ecco = args.xecco
    /\ satrec.inclo = args.xinclo
    /\ satrec.nodeo = args.xnodeo
    /\ satrec.argpo = args.xargpo
    /\ satrec.mo = args.xmo

\* A deep-space record whose corrections at the epoch are not zero.
C17_Witness ==
  /\ fn = "sgp4init"
  /\ satrec.method = "d"
  /\ DpperPeriodics(result, "y").pe # 0
  /\ DpperPeriodics(result, "y").pl # 0
  /\ satrec.ecco = args.xecco
  /\ satrec.mo = args.xmo

\* C18: sgp4init ends with one call of sgp4 at tsince = 0 on the record
\* holding all the derived coefficients; on return t = 0, init = N, error is
\* the code of that call (0 when it returned a vector), and the record is
\* otherwise as that call left it.
C18_ClosingPropagation ==
  fn = "sgp4init" =>
    /\ satrec.t = 0
    /\ satrec.init = "n"
    /\ satrec.error = Sgp4(result, 0).satrec.error
    /\ satrec.error = 0 <=> Sgp4(result, 0).out.ok
    /\ satrec = [Sgp4(result, 0).satrec EXCEPT !.init = "n"]
    /\ result.init = "y"

\* The closing call failed and sgp4init left its code in the record.
C18_Witness ==
  /\ fn = "sgp4init"
  /\ satrec.error # 0
  /\ ~Sgp4(result, 0).out.ok
  /\ result.error = 0
  /\ satrec.t = 0
  /\ satrec.init = "n"

\* The resonance coefficients of the record that are not zero.
C20_NonZero(rec) ==
  {f \in {"d2201", "d2211", "d3210", "d3222", "d4410", "d4422", "d5220",
           "d5232", "d5421", "d5433", "del1", "del2", "del3"} : rec[f] # 0}

\* C20: after sgp4init, on a new record or on one in use, irez = 2 implies
\* del1 = del2 = del3 = 0, irez = 1 implies d2201 .. d5433 are all 0, and
\* irez = 0 implies all thirteen are 0 and xlamo = xfact = 0.
C20_OtherClassZero ==
  call.kind # "new" =>
    /\ satrec.irez = 2 =>
         C20_NonZero(satrec) \cap {"del1", "del2", "del3"} = {}
    /\ satrec.irez = 1 =>
         C20_NonZero(satrec) \subseteq {"del1", "del2", "del3"}
    /\ satrec.irez = 0 =>
         /\ C20_NonZero(satrec) = {}
         /\ satrec.xlamo = 0
         /\ satrec.xfact = 0

\* A record that was synchronous with del1 # 0, initialised again as a
\* half-day resonant one.
C20_Witness ==
  /\ call.kind = "sgp4init"
  /\ call.was = 1
  /\ satrec.irez = 2
  /\ satrec.d2201 # 0
  /\ satrec.del1 = 0

\* The mean elements a call has after its secular update and dspace.
C19_MeanElements(c) == <<c.nm0, c.em1, c.nodem, c.argpm, c.xlm, c.inclm>>

\* What the call i returns in the two serial orders of the calls.
C19_Serial(i) ==
  {Sgp4(rec0, procs[i].t).out,
   Sgp4(Sgp4(rec0, procs[Other(i)].t).satrec, procs[i].t).out}

\* C19: when two calls of sgp4 at different times on one deep-space record
\* interleave, a call makes its secular update with the t that is in the
\* record, which is the other call's when that call began in between; calls
\* that do not overlap return what a serial order returns.
C19_ComputesWithLastT ==
  \A i \in {1, 2} :
     /\ procs[i].pc \notin {"idle", "mean"} =>
          C19_MeanElements(procs[i].c)
            = C19_MeanElements(
                Sgp4Mean(Sgp4Clear(rec0, procs[procs[i].by].t)))
     /\ (procs[1].pc = "done" /\ procs[2].pc = "done"
         /\ ~procs[1].overlap /\ ~procs[2].overlap) =>
          procs[i].out \in C19_Serial(i)

\* Both calls have returned, the first one made its secular update with the
\* t of the second, and it returned a vector that no serial order returns.
C19_Witness ==
  /\ procs[1].pc = "done"
  /\ procs[2].pc = "done"
  /\ procs[1].by = 2
  /\ procs[1].out.ok
  /\ procs[1].out \notin C19_Serial(1)

C22_Expected(deep, tr) ==
  IF tr.nm <= 0 THEN 2
  ELSE IF tr.em >= ONE \/ tr.em < -EM_LOW THEN 1
  ELSE IF deep /\ (tr.ep < 0 \/ tr.ep > ONE) THEN 3
  ELSE IF tr.pl < 0 THEN 4
  ELSE IF tr.mrt < ONE THEN 6
  ELSE 0

C22_Passed(error) ==
  CASE error = 2 -> 0
    [] error = 1 -> 1
    [] error = 3 -> 2
    [] error = 4 -> 3
    [] error = 6 -> 4
    [] OTHER -> 5

C23_Max(a, b) == IF a >= b THEN a ELSE b

C23_EccentricityUsed ==
  (call.kind = "sgp4" /\ call.tr.nm > 0) =>
    /\ satrec.error = 1 <=> ~(-EM_LOW <= call.tr.em /\ call.tr.em < ONE)
    /\ call.tr.checks >= 2 =>
          /\ call.tr.ep = C23_Max(call.tr.em, EM_FLOOR)
          /\ EM_FLOOR <= call.tr.ep /\ call.tr.ep < ONE

\* C23, amended: the check on em passes exactly when -0.001 <= em < 1; the
\* mean eccentricity is then max(em, 1e-6), in [1e-6, 1); the later phases
\* of a near-earth record use it, and those of a deep-space record use the
\* ep dpper returns, which is in [0, 1] when the check on ep passes.
C23_EccentricityClamped ==
  (call.kind = "sgp4" /\ call.tr.nm > 0) =>
    /\ satrec.error = 1 <=> ~(-EM_LOW <= call.tr.em /\ call.tr.em < ONE)
    /\ call.tr.checks >= 2 =>
          /\ call.tr.emc = C23_Max(call.tr.em, EM_FLOOR)
          /\ EM_FLOOR <= call.tr.emc /\ call.tr.emc < ONE
          /\ (satrec.method = "n" => call.tr.ep = call.tr.emc)
          /\ (satrec.method = "d" /\ call.tr.checks >= 3
                => 0 <= call.tr.ep /\ call.tr.ep <= ONE)

\* A call has passed the check with em = -0.001 and gone on with the floor.
C23_Witness ==
  /\ call.kind = "sgp4"
  /\ call.tr.nm > 0
  /\ call.tr.em = -EM_LOW
  /\ call.tr.checks >= 2
  /\ call.tr.emc = EM_FLOOR
  /\ call.tr.ep = EM_FLOOR

\* C24: error 3 is raised exactly for a deep-space record whose ep, as
\* dpper returns it, is < 0 or > 1; a near-earth call never ends with
\* error 3, and ep = 0 and ep = 1 are accepted.
C24_Error3 ==
  call.kind = "sgp4" =>
    /\ satrec.error = 3 <=>
          /\ satrec.method = "d"
          /\ call.tr.checks >= 2
          /\ (call.tr.ep < 0 \/ call.tr.ep > ONE)
    /\ (satrec.method = "n" => satrec.error # 3)
    /\ (call.tr.checks >= 2 /\ call.tr.ep \in {0, ONE}
          => satrec.error # 3)

\* A deep-space call has passed the check with ep = 1.
C24_Witness ==
  /\ call.kind = "sgp4"
  /\ satrec.method = "d"
  /\ call.tr.ep = ONE
  /\ call.tr.checks >= 3
  /\ satrec.error # 3

\* What holds of the Kepler iteration at every pass: at most 10 passes,
\* every correction applied is at most 0.95 in magnitude, and the loop is
\* left after at least one pass, with |tem5| < 1e-12 or after the 10th.
C25_Loop ==
  fn \in {"kepler", "solved"} =>
    /\ result.ktr - 1 \in 0..KEPLER_MAX
    /\ (result.ktr > 1 => Abs(result.tem5) <= KEPLER_CLAMP)
    /\ fn = "solved" =>
          /\ result.ktr - 1 >= 1
          /\ Abs(result.tem5) < KEPLER_TOL \/ result.ktr - 1 = KEPLER_MAX

\* A pass is taken only while |tem5| >= 1e-12 and fewer than 10 passes
\* have run, and it moves eo1 by the correction.
C25_Pass ==
  (fn = "kepler" /\ result'.ktr # result.ktr) =>
    /\ Abs(result.tem5) >= KEPLER_TOL
    /\ result.ktr - 1 < KEPLER_MAX
    /\ result'.ktr = result.ktr + 1
    /\ result'.eo1 = result.eo1 + result'.tem5

\* C25: the Kepler iteration terminates; its body runs at least once and
\* at most 10 times, every correction applied is at most 0.95 in magnitude,
\* and the loop stops as soon as |delta| < 1e-12 or the 10th pass has run.
C25_KeplerTerminates ==
  /\ []C25_Loop
  /\ [][C25_Pass]_vars
  /\ (fn = "kepler") ~> (fn = "solved")

\* The loop has been left after its 10th pass with a correction that was
\* clamped.
C25_Witness ==
  /\ fn = "solved"
  /\ result.ktr - 1 = KEPLER_MAX
  /\ Abs(result.tem5) = KEPLER_CLAMP

\* The numerator of xlcof at inclination i.
C26_Num(i) == -Quarter(Mul(Mul(J3OJ2, Sin(i)), (3 * ONE) + (5 * Cos(i))))

\* C26: the divisor of xlcof, in sgp4init and in the deep-space branch of
\* sgp4, is never zero: it is 1 + cos(i) when |1 + cos(i)| > 1.5e-12 and
\* 1.5e-12 otherwise, and xlcof is finite at every inclination, pi
\* included.
C26_DivisorNotZero ==
  fn = "xlcof" =>
    /\ result.initDivisor # 0
    /\ result.sgp4Divisor # 0
    /\ result.initDivisor
         = (IF Abs(ONE + Cos(args.inclo)) >= TEMP4
            THEN ONE + Cos(args.inclo) ELSE TEMP4)
    /\ result.sgp4Divisor = result.initDivisor
    /\ result.init = Div(C26_Num(args.inclo), result.initDivisor)
    /\ result.sgp4 = Div(C26_Num(args.inclo), result.sgp4Divisor)
    /\ Abs(result.init) < FMAX \div ONE
    /\ Abs(result.sgp4) < FMAX \div ONE

\* xlcof has been computed at i = pi, with 1.5e-12 as its divisor.
C26_Witness ==
  /\ fn = "xlcof"
  /\ args.inclo = PI
  /\ Cos(args.inclo) = -ONE
  /\ result.initDivisor = TEMP4
  /\ result.sgp4Divisor = TEMP4

\* C27: in the synchronous branch the dot terms a pass of the loop computes
\* are xndt = del1 sin(xli - FASX2) + del2 sin(2 (xli - FASX4))
\* + del3 sin(3 (xli - FASX6)) and, before the product by xldot,
\* xnddt = del1 cos(xli - FASX2) + 2 del2 cos(2 (xli - FASX4))
\* + 3 del3 cos(3 (xli - FASX6)).
C27_SynchronousRates ==
  (fn = "rates" /\ args.irez = 1) =>
    /\ result.xndt
         = Mul(args.del1, Sin(args.xli - FASX2))
           + Mul(args.del2, Sin(2 * (args.xli - FASX4)))
           + Mul(args.del3, Sin(3 * (args.xli - FASX6)))
    /\ result.xnddt
         = Mul(Mul(args.del1, Cos(args.xli - FASX2))
               + Mul(2 * args.del2, Cos(2 * (args.xli - FASX4)))
               + Mul(3 * args.del3, Cos(3 * (args.xli - FASX6))),
               args.xni + args.xfact)

\* The input node reduced modulo 2 pi, as the Lyddane branch keeps it in
\* xnoh: in [0, 2 pi) in AFSPC mode, with the sign of the input otherwise.
C28_Xnoh ==
  IF Fmod(args.o.nodep, TWO_PI) < 0 /\ args.o.opsmode = "a"
  THEN Fmod(args.o.nodep, TWO_PI) + TWO_PI
  ELSE Fmod(args.o.nodep, TWO_PI)

\* The corrections dpper applies to the option drawn.
C28_Delta == DpperDelta(args.rec, args.o, DpperPeriodics(args.rec, "n"))

\* C28: with init = 'n' and a perturbed inclp < 0.2 the nodep returned is
\* within pi of xnoh, in both operation modes; with inclp >= 0.2 it is the
\* input plus ph / sin(inclp), not reduced.
C28_NodeContinuous ==
  fn = "dpper" =>
    /\ C28_Delta.inclp < LYDDANE => Abs(result.nodep - C28_Xnoh) <= PI
    /\ C28_Delta.inclp >= LYDDANE
         => result.nodep
              = args.o.nodep + Div(C28_Delta.ph, C28_Delta.sinip)

\* dpper has returned, from the Lyddane branch in improved mode, a node
\* moved by 2 pi to the branch of a negative xnoh.
C28_Witness ==
  /\ fn = "dpper"
  /\ args.o.opsmode = "i"
  /\ C28_Delta.inclp < LYDDANE
  /\ C28_Xnoh < -PI
  /\ result.nodep < -PI

\* The secular update of sgp4 with simplified drag, for the record's t.
C29_Simplified ==
  /\ Sgp4Secular(satrec).tempa = ONE - Scale(satrec.cc1, satrec.t)
  /\ Sgp4Secular(satrec).tempe
       = Scale(Mul(satrec.bstar, satrec.cc4), satrec.t)
  /\ Sgp4Secular(satrec).templ = Scale(satrec.t2cof, satrec.t * satrec.t)
  /\ Sgp4Secular(satrec).mm = satrec.mo + Scale(satrec.mdot, satrec.t)
  /\ Sgp4Secular(satrec).argpm
       = satrec.argpo + Scale(satrec.argpdot, satrec.t)

\* C29: after sgp4init a deep-space record has isimp = 1, its d2, d3, d4,
\* t3cof, t4cof and t5cof are 0 and sgp4 makes the simplified drag update
\* for it; a near-earth record has isimp = 1 exactly when the epoch perigee
\* radius rp < 220/6378.135 + 1.
C29_DeepIsSimplified ==
  call.kind # "new" =>
    /\ satrec.method = "d" =>
          /\ satrec.isimp = 1
          /\ satrec.d2 = 0 /\ satrec.d3 = 0 /\ satrec.d4 = 0
          /\ satrec.t3cof = 0 /\ satrec.t4cof = 0 /\ satrec.t5cof = 0
          /\ C29_Simplified
    /\ satrec.method = "n" =>
          (satrec.isimp = 1
             <=> rp < ((ISIMP_KM * ONE) \div EARTH_RADIUS) + ONE)

\* sgp4 has run on a deep-space record whose perigee is above 220 km, at a
\* time other than the epoch.
C29_Witness ==
  /\ call.kind = "sgp4"
  /\ satrec.method = "d"
  /\ satrec.isimp = 1
  /\ rp >= ((ISIMP_KM * ONE) \div EARTH_RADIUS) + ONE
  /\ satrec.t # 0

\* ------------------------------------------------------------------------
\* C30: for every year in 1900..2100 and every days in 0.0..366.0,
\* days2mdhms returns month in 1..12, day in 1..(length of that month in
\* that year), hour in 0..23, minute in 0..59 and second in 0..59.
\* ------------------------------------------------------------------------

\* The length of a month of the calendar.
C30_MonthLength(year, month) ==
  IF month = 2
    THEN IF (year % 4) = 0 /\ ((year % 100) # 0 \/ (year % 400) = 0)
           THEN 29 ELSE 28
    ELSE IF month \in {4, 6, 9, 11} THEN 30 ELSE 31

C30_Called == fn \in {"days2mdhms", "twoline2satrec"}

\* The claim as stated.
C30_DateInRange ==
  C30_Called =>
    /\ result.date.month \in 1..12
    /\ result.date.day \in 1..C30_MonthLength(result.year, result.date.month)
    /\ result.date.hour \in 0..23
    /\ result.date.minute \in 0..59
    /\ result.date.second \in 0..59

\* The part of the claim that holds on every input: month and time of day.
C30_MonthAndTimeInRange ==
  C30_Called =>
    /\ result.date.month \in 1..12
    /\ result.date.hour \in 0..23
    /\ result.date.minute \in 0..59
    /\ result.date.second \in 0..59

\* The day is a day of the month for the days of the year itself, 1.0 up to
\* the end of day 365 (366.0 in a year divisible by 4), in the years whose
\* calendar has the February of year % 4.
C30_DayInRangeWithinYear ==
  (/\ C30_Called
   /\ result.days >= TICKS_PER_DAY
   /\ result.days < ((IF (result.year % 4) = 0 THEN 367 ELSE 366)
                       * TICKS_PER_DAY)
   /\ result.year \notin {1900, 2100}) =>
    result.date.day \in 1..C30_MonthLength(result.year, result.date.month)

\* The three inputs on which the day is not a day of the month.
C30_DayZero ==
  /\ fn = "days2mdhms"
  /\ result.days < TICKS_PER_DAY
  /\ result.date.month = 1
  /\ result.date.day = 0

C30_DayThirtyTwo ==
  /\ fn = "days2mdhms"
  /\ result.year = 2001
  /\ result.days = 366 * TICKS_PER_DAY
  /\ result.date.month = 12
  /\ result.date.day = 32

C30_February29 ==
  /\ fn = "days2mdhms"
  /\ result.year = 1900
  /\ result.days \div TICKS_PER_DAY = 60
  /\ result.date.month = 2
  /\ result.date.day = 29

C30_TwolineDayZero ==
  /\ fn = "twoline2satrec"
  /\ result.year = 2000
  /\ result.date.month = 1
  /\ result.date.day = 0

====
